---- MODULE Spec2Model ----
(***************************************************************************)
(* LoraChat (src/tui.js): the message store, the delivery tracker, the     *)
(* connection supervisor, the inbound sync loop and the unread index,      *)
(* modelled as one state machine.                                          *)
(*                                                                         *)
(* The program is single-threaded: every action below is one run of a      *)
(* handler from a suspension point (await / timer / event) to the next.    *)
(*                                                                         *)
(* Specifications:                                                         *)
(*   SpecStore  addMessage / updateMessageStatus called in any order       *)
(*   SpecSend   sendMessage, the retry chain, acks, ack timers             *)
(*   SpecConn   connect / scheduleRetry / onConnected / onDisconnected     *)
(*   SpecSync   processMessages and the two inbound handlers               *)
(*   SpecInput  the two submit paths of the input box                      *)
(*   SpecLoad   loadMessageCache at program start                          *)
(*   SpecView   renderMessages over the selected conversation              *)
(*   SpecScan   the supervisor with connectToScannedDevice                 *)
(*   SpecChat   the send path and the receive path of one session          *)
(*   SpecResync onConnected of a session that follows an earlier one       *)
(*   SpecInbox  the receive path of one session                           *)
(***************************************************************************)
EXTENDS Integers, Sequences, FiniteSets, TLC

(***************************************************************************)
(* Bounds of the model (not program constants).                            *)
(***************************************************************************)
\* Date.now() takes the values 1..MaxClock while messages are created; MaxClock + 1
\* stands for every later time, at which no message is created any more
MaxClock == 2
\* number of calls the store API receives in SpecStore
MaxStoreOps == 3
\* number of writes of the cache file that fail
MaxWriteFail == 1
\* number of sendMessage calls made while connected (SpecSend)
MaxSends == 2
\* scheduleRetry is entered at most MaxAttempt times in a row by failed connects
MaxAttempt == 6
\* number of connection objects the program creates
MaxConns == 7
\* number of connect() calls that resolve
MaxSessions == 2
\* connectToScannedDevice calls
MaxScans == 1
\* number of records the device's mailbox yields
MaxInbound == 2
\* number of messages in a cache file read at program start
MaxLog == 3

(***************************************************************************)
(* Values                                                                  *)
(***************************************************************************)
\* JavaScript undefined / null / no handle
Undefined == "undefined"
Null == "null"
\* a field that holds no number (channelIdx of a direct message, idx of a direct chat)
NoIdx == -1

Texts == {"hi", "yo"}
Statuses == {"sending", "sent", "delivered", "failed"}

VARIABLES
  \* --- Local Message Store
  messages,        \* state.messages: sequence of message records
  cacheFile,       \* message-cache.json: whether it exists, what it parses to, and
                   \* its messages array
  \* --- clock
  now,             \* Date.now()
  \* --- Unread/Selection Index and the device snapshot
  selectedChat,    \* state.selectedChat: [type, idx, name]
  unreadCounts,    \* state.unreadCounts: chat key -> count, only the keys that are set
  inputValue,      \* inputBox.getValue(): the text typed, as its sequence of code points
  selfInfo,        \* state.selfInfo?.name: the device name, Null before the first fetch
  contacts,        \* state.contacts: sequence of [name, publicKey, type]
  channels,        \* state.channels: sequence of [idx, name]
  \* --- Connection Supervisor
  connected,       \* state.connected
  connection,      \* state.connection: a connection object, NoConn for null
  conns,           \* the connection objects created so far: [state, listeners]
  sup,             \* retryAttempt, retryTimer, retryCountdown and the armed timers
  \* --- Delivery Tracker
  pendingMessages, \* state.pendingMessages: ack code -> [msgId, attempt, publicKey, text]
  ackTimers,       \* the armed ack timeouts, each with the closure it captured
  calls,           \* transport send calls that have not returned yet
  nextAck,         \* the next expectedAckCrc the transport hands out
  nextSend,        \* serial number of the next sendMessage call
  \* --- Inbound Sync Loop
  isProcessing,    \* the single-flight flag of processMessages
  passes,          \* the processMessages loops awaiting syncNextMessage()
  pollTimers,      \* the armed poll intervals (setInterval of onConnected)
  onConn,          \* the onConnected() calls suspended at an await
  nInbound,        \* number of records the mailbox has yielded
  \* --- bookkeeping of the run (not program state)
  op,              \* the handler that ran last and what it decided
  nOps,            \* number of calls made from outside: store API calls (SpecStore),
                   \* scanner connects (SpecScan)
  nWriteFail,      \* number of cache writes that have failed
  sendCount,       \* msgId -> number of sendTextMessage invocations made for it
  confirmed,       \* the msgIds onSendConfirmed has marked delivered
  delayLog         \* delays scheduled since the last successful connect / disconnect

storeVars == <<messages, cacheFile, nWriteFail>>
uiVars == <<selectedChat, unreadCounts, inputValue>>
devVars == <<selfInfo, contacts, channels>>
connVars == <<connected, connection, conns, sup, delayLog>>
sendVars == <<pendingMessages, ackTimers, calls, nextAck, nextSend, sendCount, confirmed>>
syncVars == <<isProcessing, passes, pollTimers, onConn, nInbound>>
vars == <<messages, cacheFile, now, selectedChat, unreadCounts, inputValue, selfInfo, contacts,
          channels, connected, connection, conns, sup, pendingMessages, ackTimers,
          calls, nextAck, nextSend, isProcessing, passes, pollTimers, onConn, nInbound,
          op, nOps, nWriteFail, sendCount, confirmed, delayLog>>

(***************************************************************************)
(* Local Message Store                                                     *)
(***************************************************************************)
\* A message as sendMessage / handleContactMessage / handleChannelMessage build it.
\* status is Undefined on inbound messages (the field is absent).
Msg(id, type, channelIdx, contactName, text, sender, outgoing, status) ==
  [id |-> id, type |-> type, channelIdx |-> channelIdx, contactName |-> contactName,
   text |-> text, sender |-> sender, outgoing |-> outgoing, status |-> status]

\* (a plausible slip: the duplicate check compares ids only)
SameMessageIdOnly(m, msg) == m.id = msg.id

\* the predicate inside state.messages.some(...) of addMessage
SameMessage(m, msg) ==
  \/ m.id = msg.id
  \/ /\ m.sender = msg.sender
     /\ m.text = msg.text
     /\ m.type = msg.type
     /\ IF m.type = "channel" THEN m.channelIdx = msg.channelIdx
                              ELSE m.contactName = msg.contactName

isDuplicate(msgs, msg) == \E i \in 1..Len(msgs) : SameMessage(msgs[i], msg)

\* state.messages after addMessage(msg)
\* (a plausible slip: unshift for push)
addMessageUnshift(msgs, msg) == IF isDuplicate(msgs, msg) THEN msgs ELSE <<msg>> \o msgs
addMessage(msgs, msg) == IF isDuplicate(msgs, msg) THEN msgs ELSE Append(msgs, msg)

\* state.messages after updateMessageStatus(msgId, status): find() takes the first match
updateMessageStatus(msgs, msgId, status) ==
  IF \E i \in 1..Len(msgs) : msgs[i].id = msgId
  THEN LET i == CHOOSE k \in 1..Len(msgs) :
                  /\ msgs[k].id = msgId
                  /\ \A j \in 1..(k-1) : msgs[j].id # msgId
       IN [msgs EXCEPT ![i].status = status]
  ELSE msgs

\* the file after saveMessageCache(): the whole log, or the old file when the write throws
saveMessageCache(file, msgs, writeOk) ==
  IF writeOk THEN [exists |-> TRUE, json |-> "log", messages |-> msgs] ELSE file

\* saveMessageCache() throws to its caller: never, its catch only logs
\* (a plausible slip: writeFileSync called outside a try)
saveRethrows(writeOk) == ~writeOk
saveThrows(writeOk) == FALSE

\* the file after addMessage: written only when the message was accepted
\* (a plausible slip: saveMessageCache() called outside the if)
cacheAfterAddAlways(file, msgs, msg, writeOk) ==
  saveMessageCache(file, addMessage(msgs, msg), writeOk)
cacheAfterAdd(file, msgs, msg, writeOk) ==
  IF isDuplicate(msgs, msg) THEN file
  ELSE saveMessageCache(file, addMessage(msgs, msg), writeOk)

\* the file after updateMessageStatus: written only when the id was found
\* (a plausible slip: the status changed in memory only)
cacheAfterUpdateUnsaved(file, msgs, msgId, status, writeOk) == file
cacheAfterUpdate(file, msgs, msgId, status, writeOk) ==
  IF \E i \in 1..Len(msgs) : msgs[i].id = msgId
  THEN saveMessageCache(file, updateMessageStatus(msgs, msgId, status), writeOk)
  ELSE file

\* json: "log" for a document { ..., messages: [...] } (messages is that array),
\* otherwise what the file holds instead
NoFile == [exists |-> FALSE, json |-> "log", messages |-> <<>>]

hasId(msgs, msgId) == \E i \in 1..Len(msgs) : msgs[i].id = msgId

\* fs.writeFileSync returns or throws; the model lets it throw MaxWriteFail times
WriteOutcomes == IF nWriteFail < MaxWriteFail THEN {TRUE, FALSE} ELSE {TRUE}
failsAfter(written, writeOk) == IF written /\ ~writeOk THEN nWriteFail + 1 ELSE nWriteFail

(***************************************************************************)
(* SpecStore: the store API called in any order, from an empty store.      *)
(***************************************************************************)
Ids == 1..MaxClock

\* The messages SpecStore offers to addMessage, each shaped as one of the three
\* constructors of the program builds it (sendMessage, handleContactMessage,
\* handleChannelMessage): one inbound channel message and every message that differs
\* from it in one component of the content key, and the outgoing messages.
MsgSpace ==
  UNION { { Msg(id, "channel", 0, Undefined, "hi", "alice", FALSE, Undefined),
            Msg(id, "channel", 1, Undefined, "hi", "alice", FALSE, Undefined),
            Msg(id, "channel", 0, Undefined, "yo", "alice", FALSE, Undefined),
            Msg(id, "channel", 0, Undefined, "hi", Null, FALSE, Undefined),
            Msg(id, "direct", NoIdx, "alice", "hi", "alice", FALSE, Undefined),
            Msg(id, "direct", NoIdx, "bob", "hi", "bob", FALSE, Undefined),
            Msg(id, "channel", 0, Undefined, "hi", "Me", TRUE, "sending"),
            Msg(id, "direct", NoIdx, "alice", "hi", "Me", TRUE, "sending"),
            Msg(id, "direct", NoIdx, "bob", "hi", "Me", TRUE, "sending") } : id \in Ids }

(***************************************************************************)
(* Loading the cache file                                                  *)
(***************************************************************************)
\* `${m.channelIdx || ''}`: 0 and undefined give the empty string
idxOrEmpty(idx) == IF idx \in {NoIdx, 0} THEN "" ELSE ToString(idx)
\* `${m.contactName || ''}`
nameOrEmpty(name) == IF name \in {Undefined, ""} THEN "" ELSE name

\* the key of the load-time deduplication: the five fields joined by '|' into one
\* string (null prints as "null")
cacheKey(m) ==
  m.type \o "|" \o m.sender \o "|" \o m.text \o "|" \o idxOrEmpty(m.channelIdx)
         \o "|" \o nameOrEmpty(m.contactName)

\* messages.filter(m => { ... seen ... }) from element i on, `seen` holding the keys of
\* the elements kept so far
RECURSIVE uniqueFrom(_, _, _)
uniqueFrom(msgs, i, seen) ==
  IF i > Len(msgs) THEN <<>>
  ELSE IF cacheKey(msgs[i]) \in seen
       THEN uniqueFrom(msgs, i + 1, seen)
       ELSE <<msgs[i]>> \o uniqueFrom(msgs, i + 1, seen \cup {cacheKey(msgs[i])})

\* what a cache file can hold instead of a log: a file that cannot be read, text that
\* is not JSON, the JSON value null, another JSON value that is not an object with a
\* messages field (a number, a string, an array, an object without the field), and
\* an object whose messages field is null, another falsy value, or a truthy value
\* that is not an array
CacheFaults == {"unreadable", "not json", "null", "primitive", "array", "no messages",
                "messages null", "messages falsy", "messages not array"}

\* JSON.stringify of one message: a property whose value is undefined is left out,
\* null and every other value is written
stringify(m) ==
  [f \in {"id", "type", "text", "sender", "outgoing"}
          \cup (IF m.channelIdx # NoIdx THEN {"channelIdx"} ELSE {})
          \cup (IF m.contactName # Undefined THEN {"contactName"} ELSE {})
          \cup (IF m.status # Undefined THEN {"status"} ELSE {}) |-> m[f]]

\* JSON.parse of one message: a property the text does not carry reads as undefined
parse(doc) ==
  Msg(doc.id, doc.type,
      IF "channelIdx" \in DOMAIN doc THEN doc.channelIdx ELSE NoIdx,
      IF "contactName" \in DOMAIN doc THEN doc.contactName ELSE Undefined,
      doc.text, doc.sender, doc.outgoing,
      IF "status" \in DOMAIN doc THEN doc.status ELSE Undefined)

\* the messages array as JSON.parse gives it back from the text JSON.stringify wrote
parsed(msgs) == [i \in 1..Len(msgs) |-> parse(stringify(msgs[i]))]

\* the try block of loadMessageCache for a file that exists: what it returns, or that
\* it threw (readFileSync, JSON.parse, data.messages of null, .filter of a non-array)
readCache(file) ==
  IF file.json \in {"unreadable", "not json", "null", "messages not array"}
  THEN [threw |-> TRUE, value |-> <<>>]
  ELSE IF file.json = "log"
       THEN [threw |-> FALSE, value |-> uniqueFrom(parsed(file.messages), 1, {})]
       ELSE [threw |-> FALSE, value |-> <<>>]

\* catch (err) { debugLog(...) } followed by return []
\* (a plausible slip: the exception passed on to the caller)
rethrown(r) == r
caught(r) == IF r.threw THEN [threw |-> FALSE, value |-> <<>>] ELSE r

\* loadMessageCache(): the value returned to the caller, or that it threw
loadMessageCache(file) ==
  IF file.exists THEN caught(readCache(file)) ELSE [threw |-> FALSE, value |-> <<>>]

\* the message arrays of the cache files the model reads: messages as the program
\* stores them (handleChannelMessage, handleContactMessage, sendMessage), among them
\* two with one content key and two with one id
LogMsgs ==
  { Msg(1, "channel", 0, Undefined, "x|y", "bob", FALSE, Undefined),
    Msg(2, "channel", 0, Undefined, "y", "bob|x", FALSE, Undefined),
    Msg(3, "channel", 0, Undefined, "x|y", "bob", FALSE, Undefined),
    Msg(4, "channel", 1, Undefined, "x|y", "bob", FALSE, Undefined),
    Msg(1, "direct", NoIdx, "alice", "hi", "alice", FALSE, Undefined),
    Msg(5, "direct", NoIdx, "alice", "hi", "Me", TRUE, "sent"),
    Msg(6, "channel", 0, Undefined, "hi", Null, FALSE, Undefined) }

RECURSIVE SeqsUpTo(_, _)
SeqsUpTo(S, n) ==
  IF n = 0 THEN {<<>>}
  ELSE LET shorter == SeqsUpTo(S, n - 1)
       IN shorter \cup { Append(q, x) : q \in shorter, x \in S }

CacheFiles ==
  {NoFile}
  \cup { [exists |-> TRUE, json |-> f, messages |-> <<>>] : f \in CacheFaults }
  \cup { [exists |-> TRUE, json |-> "log", messages |-> l] : l \in SeqsUpTo(LogMsgs, MaxLog) }

(***************************************************************************)
(* The per-conversation view                                               *)
(***************************************************************************)
\* the predicate of state.messages.filter(...) in renderMessages
\* (a plausible slip: the channel index not compared)
inChatAnyChannel(m, chat) ==
  IF chat.type = "channel" THEN m.type = "channel"
  ELSE m.type = "direct" /\ m.contactName = chat.name
inChat(m, chat) ==
  IF chat.type = "channel" THEN m.type = "channel" /\ m.channelIdx = chat.idx
  ELSE m.type = "direct" /\ m.contactName = chat.name

\* const filtered = state.messages.filter(...)
filtered(msgs, chat) == SelectSeq(msgs, LAMBDA m : inChat(m, chat))

(***************************************************************************)
(* Small maps (JavaScript Map / object used as a map)                      *)
(***************************************************************************)
EmptyMap == [k \in {} |-> 0]
MapSet(m, k, v) == [x \in (DOMAIN m) \cup {k} |-> IF x = k THEN v ELSE m[x]]
MapDelete(m, k) == [x \in (DOMAIN m) \ {k} |-> m[x]]
Min(a, b) == IF a <= b THEN a ELSE b

(***************************************************************************)
(* Unread/Selection Index                                                  *)
(***************************************************************************)
Chat(type, idx, name) == [type |-> type, idx |-> idx, name |-> name]

\* `${type}:${idOrName}`; a channel index is passed through ToString, as the
\* template literal converts it
getChatKey(type, idOrName) == type \o ":" \o idOrName

\* state.unreadCounts after incrementUnread(type, idOrName)
\* (a plausible slip: the count is set, not added to)
incrementUnreadToOne(counts, type, idOrName) ==
  MapSet(counts, getChatKey(type, idOrName), 1)
incrementUnread(counts, type, idOrName) ==
  LET key == getChatKey(type, idOrName)
  IN MapSet(counts, key, (IF key \in DOMAIN counts THEN counts[key] ELSE 0) + 1)

\* state.unreadCounts after clearCurrentUnread()
clearCurrentUnread(counts, chat) ==
  LET key == getChatKey(chat.type,
                        IF chat.type = "channel" THEN ToString(chat.idx) ELSE chat.name)
  IN IF key \in DOMAIN counts /\ counts[key] # 0 THEN MapDelete(counts, key) ELSE counts

getUnreadCount(counts, type, idOrName) ==
  LET key == getChatKey(type, idOrName)
  IN IF key \in DOMAIN counts THEN counts[key] ELSE 0

(***************************************************************************)
(* Device data                                                             *)
(***************************************************************************)
\* A public key is cut where the program cuts it: its first 4 bytes, bytes 5-6 and
\* the rest, each as the hex text BufferUtils.bytesToHex gives.
KeyAlice == <<"a1b2c3d4", "e5f6", "01">>
KeyBob == <<"b0b0b0b0", "b0b0", "02">>
AdvTypeChat == 1
\* the name getSelfInfo() returns
DeviceName == "rick"

\* what onConnected leaves in state.contacts / state.channels for the device of the model
DeviceContacts == << [name |-> "alice", publicKey |-> KeyAlice, type |-> AdvTypeChat],
                     [name |-> "bob", publicKey |-> KeyBob, type |-> AdvTypeChat] >>
DeviceChannels == << [idx |-> 0, name |-> "Public"], [idx |-> 1, name |-> "ops"] >>

(***************************************************************************)
(* Timers and handles                                                      *)
(***************************************************************************)
Later == MaxClock + 1

\* a timer armed at time t with a positive delay can fire: the clock has moved on
Elapsed(t) == now > t \/ now = Later

\* a handle / serial number that no element of S carries
FreshId(S) == CHOOSE n \in 1..(Cardinality(S) + 1) : \A x \in S : x.id # n

(***************************************************************************)
(* Connection Supervisor                                                   *)
(***************************************************************************)
NoConn == 0
NoHandle == 0

\* a connection object: 'connecting' until connect() settles ('pairing' until
\* connectToDevice() settles), then 'open' or 'failed'; 'closing' once close() has
\* disconnected its peripheral, 'closed' after its 'disconnected' event; listeners: the
\* four handlers are registered on it; announced: it has emitted its 'connected' event;
\* closeCalled: close() has been called on it
NewConn == [state |-> "connecting", listeners |-> FALSE, announced |-> FALSE,
            closeCalled |-> FALSE]
isOpen(c) == c \in DOMAIN conns /\ conns[c].state = "open"
hears(c) == isOpen(c) /\ conns[c].listeners
\* the object can still emit 'disconnected' to the handlers of the program
emits(c) == c \in DOMAIN conns /\ conns[c].state \in {"open", "closing"} /\ conns[c].listeners
baseDelay == 2000
maxDelay == 30000

\* sup.timers: armed setTimeout handles [id, delay, armedAt]; sup.intervals: armed setInterval
\* handles; retryTimer / retryCountdown hold a handle or NoHandle (null)
SupInit == [retryAttempt |-> 0, retryTimer |-> NoHandle, retryCountdown |-> NoHandle,
            timers |-> {}, intervals |-> {}, nextHandle |-> 1, lastDelay |-> 0]

\* Math.min(baseDelay * Math.pow(2, retryAttempt), 30000)
\* (a plausible slip: the cap left out)
retryDelayUncapped(attempt) == baseDelay * (2 ^ attempt)
retryDelay(attempt) == Min(baseDelay * (2 ^ attempt), maxDelay)

\* (a plausible slip: the counter is advanced but no timer is armed)
scheduleRetryUnarmed(r) ==
  [r EXCEPT !.retryAttempt = r.retryAttempt + 1,
            !.lastDelay = retryDelay(r.retryAttempt)]

scheduleRetry(r) ==
  LET delay == retryDelay(r.retryAttempt)
      hInterval == r.nextHandle
      hTimer == r.nextHandle + 1
  IN [r EXCEPT !.retryAttempt = r.retryAttempt + 1,
               !.intervals = r.intervals \cup {hInterval},
               !.retryCountdown = hInterval,
               !.timers = r.timers \cup {[id |-> hTimer, delay |-> delay, armedAt |-> now]},
               !.retryTimer = hTimer,
               !.nextHandle = r.nextHandle + 2,
               !.lastDelay = delay]

cancelRetry(r) ==
  [r EXCEPT !.timers = IF r.retryTimer # NoHandle
                       THEN {t \in r.timers : t.id # r.retryTimer} ELSE r.timers,
            !.retryTimer = NoHandle,
            !.intervals = IF r.retryCountdown # NoHandle
                          THEN r.intervals \ {r.retryCountdown} ELSE r.intervals,
            !.retryCountdown = NoHandle]

\* retryAttempt = 0 in connect() after the await
\* (a plausible slip: the reset left out)
resetOnConnectDropped(r) == r
resetOnConnect(r) == [r EXCEPT !.retryAttempt = 0]

\* connect() up to its await: cancelRetry(), then a new connection object replaces
\* state.connection and its connect(...) is awaited
connect(r) ==
  /\ sup' = cancelRetry(r)
  /\ conns' = Append(conns, NewConn)
  /\ connection' = Len(conns) + 1

\* the setTimeout callback of scheduleRetry: it clears the countdown interval that
\* retryCountdown holds, then calls connect().  (The countdown interval's own callback
\* only redraws the status bar.)
RetryTimerFires ==
  \E t \in sup.timers :
    /\ Elapsed(t.armedAt)
    /\ Len(conns) < MaxConns
    /\ connect([sup EXCEPT !.timers = @ \ {t},
                           !.intervals = IF sup.retryCountdown # NoHandle
                                         THEN @ \ {sup.retryCountdown} ELSE @,
                           !.retryCountdown = NoHandle])
    /\ op' = [name |-> "retryTimerFired", delay |-> t.delay]
    /\ UNCHANGED <<connected, delayLog, storeVars, uiVars, devVars, sendVars, syncVars,
                   now, nOps>>

\* the await of connect() resolves for connection object c: the counter is reset and
\* the handlers are registered on the object state.connection holds now; with
\* state.connection null the registration throws into the catch
ConnectResolves ==
  \E c \in DOMAIN conns :
    /\ conns[c].state = "connecting"
    /\ Cardinality({d \in DOMAIN conns : conns[d].state \in {"open", "closing", "closed"}}) < MaxSessions
    /\ IF connection # NoConn
       THEN /\ conns' = [[conns EXCEPT ![c].state = "open"]
                            EXCEPT ![connection].listeners = TRUE]
            /\ sup' = resetOnConnect(sup)
            /\ delayLog' = <<>>
            /\ UNCHANGED connected
       ELSE /\ conns' = [conns EXCEPT ![c].state = "open"]
            /\ connected' = FALSE
            /\ sup' = scheduleRetry(resetOnConnect(sup))
            /\ delayLog' = <<sup'.lastDelay>>
    /\ op' = [name |-> "connectResolved", conn |-> c, threw |-> connection = NoConn]
    /\ UNCHANGED <<connection, storeVars, uiVars, devVars, sendVars, syncVars, now, nOps>>

\* the await of connect() throws for connection object c (scan timeout, Bluetooth off,
\* connection or discovery error): the catch of connect()
ConnectRejects ==
  \E c \in DOMAIN conns :
    /\ conns[c].state = "connecting"
    /\ sup.retryAttempt < MaxAttempt
    /\ conns' = [conns EXCEPT ![c].state = "failed"]
    /\ connected' = FALSE
    /\ sup' = scheduleRetry(sup)
    /\ delayLog' = Append(delayLog, sup'.lastDelay)
    /\ op' = [name |-> "connectFailed", conn |-> c]
    /\ UNCHANGED <<connection, storeVars, uiVars, devVars, sendVars, syncVars, now, nOps>>

\* onDisconnected(): the 'disconnected' event of a connection object the handlers were
\* registered on
OnDisconnected(c) ==
  /\ emits(c)
  /\ conns' = [conns EXCEPT ![c].state = "closed"]
  /\ connected' = FALSE
  /\ sup' = scheduleRetry([sup EXCEPT !.retryAttempt = 0])
  /\ delayLog' = <<sup'.lastDelay>>
  /\ op' = [name |-> "onDisconnected", conn |-> c]
  /\ UNCHANGED <<connection, storeVars, uiVars, devVars, sendVars, now, nOps, syncVars>>

\* NodeJSBleConnection.close(): the peripheral of an established connection is
\* disconnected and its characteristics are dropped (its 'disconnect' event follows);
\* an object that never connected or has disconnected has no peripheral link to drop,
\* and a connect in flight is not settled by close()
close(cs, c) ==
  [cs EXCEPT ![c].state = IF @ = "open" THEN "closing" ELSE @,
             ![c].closeCalled = TRUE]

\* connectToScannedDevice(device) up to its await of connectToDevice(): the connection
\* held is closed (close() of the BLE connection returns without waiting), a new
\* connection object replaces it.  Neither cancelRetry() nor retryAttempt is touched.
ConnectToScannedDevice ==
  /\ Len(conns) < MaxConns
  /\ nOps < MaxScans
  /\ nOps' = nOps + 1
  /\ conns' = Append(IF connection # NoConn THEN close(conns, connection) ELSE conns,
                     [NewConn EXCEPT !.state = "pairing"])
  /\ connection' = Len(conns) + 1
  /\ connected' = IF connection # NoConn THEN FALSE ELSE connected
  /\ op' = [name |-> "connectToScannedDevice", closed |-> connection,
            timers |-> sup.timers, intervals |-> sup.intervals]
  /\ UNCHANGED <<sup, delayLog, storeVars, uiVars, devVars, sendVars, syncVars, now>>

\* the await of connectToDevice() resolves for connection object c: the handlers are
\* registered on the object state.connection holds now; with state.connection null the
\* registration throws into the catch
ConnectToDeviceResolves ==
  \E c \in DOMAIN conns :
    /\ conns[c].state = "pairing"
    /\ Cardinality({d \in DOMAIN conns : conns[d].state \in {"open", "closing", "closed"}}) < MaxSessions
    /\ IF connection # NoConn
       THEN /\ conns' = [[conns EXCEPT ![c].state = "open"]
                            EXCEPT ![connection].listeners = TRUE]
            /\ UNCHANGED <<connection, connected>>
       ELSE /\ conns' = [conns EXCEPT ![c].state = "open"]
            /\ connection' = NoConn
            /\ connected' = FALSE
    /\ op' = [name |-> "connectToDeviceResolved", conn |-> c, threw |-> connection = NoConn]
    /\ UNCHANGED <<sup, delayLog, storeVars, uiVars, devVars, sendVars, syncVars, now, nOps>>

\* the await of connectToDevice() throws for connection object c: the catch of
\* connectToScannedDevice
ConnectToDeviceRejects ==
  \E c \in DOMAIN conns :
    /\ conns[c].state = "pairing"
    /\ conns' = [conns EXCEPT ![c].state = "failed"]
    /\ connection' = NoConn
    /\ connected' = FALSE
    /\ op' = [name |-> "connectToDeviceFailed", conn |-> c]
    /\ UNCHANGED <<sup, delayLog, storeVars, uiVars, devVars, sendVars, syncVars, now, nOps>>

(***************************************************************************)
(* Clock and selection                                                     *)
(***************************************************************************)
Tick ==
  /\ now <= MaxClock
  /\ now' = now + 1
  /\ op' = [name |-> "tick"]
  /\ UNCHANGED <<storeVars, uiVars, devVars, connVars, sendVars, syncVars, nOps>>

\* the chats the sidebar offers: the channels and the contacts of the snapshot
SidebarChats ==
  { Chat("channel", channels[i].idx, channels[i].name) : i \in 1..Len(channels) }
  \cup { Chat("direct", NoIdx, contacts[i].name) : i \in 1..Len(contacts) }

selectChat(chat) ==
  /\ selectedChat' = chat
  /\ unreadCounts' = clearCurrentUnread(unreadCounts, chat)

SelectChat ==
  /\ \E chat \in SidebarChats :
       /\ selectChat(chat)
       /\ op' = [name |-> "selectChat"]
  /\ UNCHANGED <<inputValue, storeVars, devVars, connVars, sendVars, now, nOps, syncVars>>

(***************************************************************************)
(* Delivery Tracker                                                        *)
(***************************************************************************)
MAX_RETRIES == 2
NoKey == <<"", "", "">>

\* state.selfInfo?.name || 'Me'
selfName == IF selfInfo \in {Null, ""} THEN "Me" ELSE selfInfo

hasContact(name) == \E i \in 1..Len(contacts) : contacts[i].name = name
\* state.contacts.find(c => c.name === name)
findContact(name) ==
  contacts[CHOOSE i \in 1..Len(contacts) :
             /\ contacts[i].name = name
             /\ \A j \in 1..(i-1) : contacts[j].name # name]

Call(sid, kind, msgId, attempt, publicKey, text) ==
  [sid |-> sid, kind |-> kind, msgId |-> msgId, attempt |-> attempt,
   publicKey |-> publicKey, text |-> text, conn |-> connection]

bump(counts, msgId) == [counts EXCEPT ![msgId] = @ + 1]

\* sendWithRetry(publicKey, text, msgId, attempt) up to its first suspension, run on
\* the store msgs / file and the other in-flight calls `others`.  With no connection
\* object state.connection.sendTextMessage throws a TypeError inside the try of every
\* attempt, so the chain runs through to 'failed' in the same step.
sendWithRetry(others, msgs, file, sid, publicKey, text, msgId, attempt, writeOk) ==
  IF connection = NoConn
  THEN /\ calls' = others
       /\ sendCount' = sendCount
       /\ messages' = updateMessageStatus(msgs, msgId, "failed")
       /\ cacheFile' = cacheAfterUpdate(file, msgs, msgId, "failed", writeOk)
  ELSE /\ calls' = others \cup {Call(sid, "direct", msgId, attempt, publicKey, text)}
       /\ sendCount' = bump(sendCount, msgId)
       /\ messages' = msgs
       /\ cacheFile' = file

\* if (!state.connected) { ...; return; }
\* (a plausible slip: the check dropped)
notConnectedDropped == FALSE
notConnected == ~connected

\* sendMessage(text) up to its first await, called from `via`: "call" for a bare call,
\* "enter" / "button" for the two submit paths of the input box
sendMessage(text, via) ==
  IF notConnected
  THEN /\ op' = [name |-> "sendMessage", via |-> via, text |-> text, accepted |-> FALSE]
       /\ UNCHANGED <<storeVars, selectedChat, unreadCounts, devVars, connVars, sendVars,
                      now, nOps, syncVars>>
  ELSE
    /\ nextSend <= MaxSends
    /\ now <= MaxClock
    /\ \E writeOk \in WriteOutcomes :
         LET msgId == now
             isChannel == selectedChat.type = "channel"
             msg == Msg(msgId, selectedChat.type,
                        IF isChannel THEN selectedChat.idx ELSE NoIdx,
                        IF isChannel THEN Undefined ELSE selectedChat.name,
                        text, selfName, TRUE, "sending")
             msgs1 == addMessage(messages, msg)
             file1 == cacheAfterAdd(cacheFile, messages, msg, writeOk)
         IN /\ IF isChannel
               THEN IF connection = NoConn
                    THEN /\ messages' = updateMessageStatus(msgs1, msgId, "failed")
                         /\ cacheFile' = cacheAfterUpdate(file1, msgs1, msgId, "failed", writeOk)
                         /\ UNCHANGED <<calls, sendCount>>
                    ELSE /\ calls' = calls \cup
                              {Call(nextSend, "channel", msgId, 0, NoKey, text)}
                         /\ messages' = msgs1
                         /\ cacheFile' = file1
                         /\ UNCHANGED sendCount
               ELSE IF hasContact(selectedChat.name)
                    THEN sendWithRetry(calls, msgs1, file1, nextSend,
                                       findContact(selectedChat.name).publicKey,
                                       text, msgId, 0, writeOk)
                    ELSE /\ messages' = updateMessageStatus(msgs1, msgId, "failed")
                         /\ cacheFile' = cacheAfterUpdate(file1, msgs1, msgId, "failed", writeOk)
                         /\ UNCHANGED <<calls, sendCount>>
            /\ nWriteFail' = failsAfter(TRUE, writeOk)
            /\ op' = [name |-> "sendMessage", via |-> via, text |-> text,
                      accepted |-> TRUE, msgId |-> msgId,
                      stored |-> ~isDuplicate(messages, msg)]
    /\ nextSend' = nextSend + 1
    /\ UNCHANGED <<selectedChat, unreadCounts, devVars, connVars, pendingMessages,
                   ackTimers, nextAck, confirmed, now, nOps, syncVars>>

SendMessage(text) == sendMessage(text, "call") /\ UNCHANGED inputValue

(***************************************************************************)
(* The input box and its two submit paths                                  *)
(***************************************************************************)
MAX_MESSAGE_BYTES == 200

\* TLC cannot take a string apart, so the input box holds its text as the sequence of
\* its Unicode code points.
Rep(cp, n) == [i \in 1..n |-> cp]

\* the number of bytes UTF-8 encodes a code point in
utf8Width(cp) == IF cp < 128 THEN 1 ELSE IF cp < 2048 THEN 2 ELSE IF cp < 65536 THEN 3 ELSE 4

\* the sum of the widths of the code points of str (summed by halves)
RECURSIVE byteLength(_)
byteLength(str) ==
  IF Len(str) = 0 THEN 0
  ELSE IF Len(str) = 1 THEN utf8Width(str[1])
  ELSE byteLength(SubSeq(str, 1, Len(str) \div 2))
       + byteLength(SubSeq(str, Len(str) \div 2 + 1, Len(str)))

\* getByteLength(str): Buffer.byteLength(str, 'utf8')
\* (a plausible slip: the length in characters, str.length)
getByteLengthInChars(str) == Len(str)
getByteLength(str) == byteLength(str)

\* white space String.prototype.trim() removes: space, tab, line feed, no-break space
isSpace(cp) == cp \in {32, 9, 10, 160}

\* text.trim()
trim(str) ==
  IF \A i \in 1..Len(str) : isSpace(str[i]) THEN <<>>
  ELSE LET first == CHOOSE i \in 1..Len(str) :
                      ~isSpace(str[i]) /\ \A j \in 1..(i-1) : isSpace(str[j])
           last == CHOOSE i \in 1..Len(str) :
                     ~isSpace(str[i]) /\ \A j \in (i+1)..Len(str) : isSpace(str[j])
       IN SubSeq(str, first, last)

\* if (text && text.trim())
hasText(str) == str # <<>> /\ trim(str) # <<>>

\* the texts the model types: around the limit in ASCII, with white space around them,
\* and with characters of 2, 3 and 4 bytes
InputTexts ==
  { <<>>, <<32, 32>>, <<104, 105>>,
    Rep(97, 199), Rep(97, 200), Rep(97, 201),
    <<32>> \o Rep(97, 200) \o <<32, 10>>,
    <<32>> \o Rep(97, 201),
    Rep(97, 198) \o <<233>>, Rep(97, 199) \o <<233>>,
    Rep(8364, 66) \o <<97, 97>>, Rep(8364, 67),
    Rep(128512, 50), Rep(128512, 50) \o <<97>> }

\* the user edits the input box
TypeText ==
  \E str \in InputTexts :
    /\ str # inputValue
    /\ inputValue' = str
    /\ op' = [name |-> "typed"]
    /\ UNCHANGED <<selectedChat, unreadCounts, storeVars, devVars, connVars, sendVars,
                   syncVars, now, nOps>>

\* inputBox keypress handler, key enter / return
PressEnter ==
  LET text == inputValue IN
    IF hasText(text)
    THEN IF getByteLength(trim(text)) > MAX_MESSAGE_BYTES
         THEN /\ op' = [name |-> "submitRejected", via |-> "enter",
                        bytes |-> getByteLength(trim(text))]
              /\ UNCHANGED <<uiVars, storeVars, devVars, connVars, sendVars, syncVars,
                             now, nOps>>
         ELSE /\ sendMessage(trim(text), "enter")
              /\ inputValue' = <<>>
    ELSE /\ inputValue' = <<>>
         /\ op' = [name |-> "submitEmpty", via |-> "enter"]
         /\ UNCHANGED <<selectedChat, unreadCounts, storeVars, devVars, connVars,
                        sendVars, syncVars, now, nOps>>

\* sendButton press handler
PressSend ==
  LET text == inputValue IN
    IF hasText(text)
    THEN IF getByteLength(trim(text)) > MAX_MESSAGE_BYTES
         THEN /\ op' = [name |-> "submitRejected", via |-> "button",
                        bytes |-> getByteLength(trim(text))]
              /\ UNCHANGED <<uiVars, storeVars, devVars, connVars, sendVars, syncVars,
                             now, nOps>>
         ELSE /\ sendMessage(trim(text), "button")
              /\ inputValue' = <<>>
    ELSE /\ op' = [name |-> "submitEmpty", via |-> "button"]
         /\ UNCHANGED <<uiVars, storeVars, devVars, connVars, sendVars, syncVars,
                        now, nOps>>

\* await state.connection.sendChannelTextMessage(...) resolves; a call returns only
\* while its connection is open
ChannelSendResolves ==
  \E c \in calls, writeOk \in WriteOutcomes :
    /\ c.kind = "channel"
    /\ isOpen(c.conn)
    /\ calls' = calls \ {c}
    /\ messages' = updateMessageStatus(messages, c.msgId, "sent")
    /\ cacheFile' = cacheAfterUpdate(cacheFile, messages, c.msgId, "sent", writeOk)
    /\ nWriteFail' = failsAfter(TRUE, writeOk)
    /\ op' = [name |-> "channelSent", msgId |-> c.msgId]
    /\ UNCHANGED <<uiVars, devVars, connVars, pendingMessages, ackTimers, nextAck,
                   nextSend, sendCount, confirmed, now, nOps, syncVars>>

\* await state.connection.sendChannelTextMessage(...) throws: the catch of sendMessage
ChannelSendThrows ==
  \E c \in calls, writeOk \in WriteOutcomes :
    /\ c.kind = "channel"
    /\ calls' = calls \ {c}
    /\ messages' = updateMessageStatus(messages, c.msgId, "failed")
    /\ cacheFile' = cacheAfterUpdate(cacheFile, messages, c.msgId, "failed", writeOk)
    /\ nWriteFail' = failsAfter(TRUE, writeOk)
    /\ op' = [name |-> "channelSendFailed", msgId |-> c.msgId]
    /\ UNCHANGED <<uiVars, devVars, connVars, pendingMessages, ackTimers, nextAck,
                   nextSend, sendCount, confirmed, now, nOps, syncVars>>

\* await state.connection.sendTextMessage(...) resolves with a fresh expectedAckCrc:
\* the pending entry is set, the ack timeout armed and the status becomes 'sent'
DirectSendResolves ==
  \E c \in calls, writeOk \in WriteOutcomes :
    /\ c.kind = "direct"
    /\ isOpen(c.conn)
    /\ calls' = calls \ {c}
    /\ pendingMessages' = MapSet(pendingMessages, nextAck,
          [msgId |-> c.msgId, attempt |-> c.attempt, publicKey |-> c.publicKey,
           text |-> c.text, timeout |-> nextAck])
    /\ ackTimers' = ackTimers \cup
          {[id |-> nextAck, ack |-> nextAck, msgId |-> c.msgId, sid |-> c.sid,
            attempt |-> c.attempt, conn |-> c.conn, armedAt |-> now]}
    /\ nextAck' = nextAck + 1
    /\ messages' = updateMessageStatus(messages, c.msgId, "sent")
    /\ cacheFile' = cacheAfterUpdate(cacheFile, messages, c.msgId, "sent", writeOk)
    /\ nWriteFail' = failsAfter(TRUE, writeOk)
    /\ op' = [name |-> "directSent", msgId |-> c.msgId, attempt |-> c.attempt]
    /\ UNCHANGED <<uiVars, devVars, connVars, nextSend, sendCount, confirmed, now, nOps, syncVars>>

\* await state.connection.sendTextMessage(...) throws: the catch of sendWithRetry
DirectSendThrows ==
  \E c \in calls, writeOk \in WriteOutcomes :
    /\ c.kind = "direct"
    /\ IF c.attempt < MAX_RETRIES
       THEN sendWithRetry(calls \ {c}, messages, cacheFile, c.sid, c.publicKey, c.text,
                          c.msgId, c.attempt + 1, writeOk)
       ELSE /\ calls' = calls \ {c}
            /\ messages' = updateMessageStatus(messages, c.msgId, "failed")
            /\ cacheFile' = cacheAfterUpdate(cacheFile, messages, c.msgId, "failed", writeOk)
            /\ UNCHANGED sendCount
    /\ nWriteFail' = failsAfter(TRUE, writeOk)
    /\ op' = [name |-> "directSendThrew", msgId |-> c.msgId, attempt |-> c.attempt]
    /\ UNCHANGED <<uiVars, devVars, connVars, pendingMessages, ackTimers, nextAck,
                   nextSend, confirmed, now, nOps, syncVars>>

\* the setTimeout callback armed in sendWithRetry fires, result.estTimeout + 3000 ms
\* after it was armed
AckTimeout ==
  \E t \in ackTimers, writeOk \in WriteOutcomes :
    /\ Elapsed(t.armedAt)
    /\ ackTimers' = ackTimers \ {t}
    /\ IF t.ack \in DOMAIN pendingMessages
       THEN LET pending == pendingMessages[t.ack]
            IN /\ pendingMessages' = MapDelete(pendingMessages, t.ack)
               /\ IF pending.attempt < MAX_RETRIES
                  THEN sendWithRetry(calls, messages, cacheFile, t.sid, pending.publicKey,
                                     pending.text, pending.msgId, pending.attempt + 1,
                                     writeOk)
                  ELSE /\ messages' = updateMessageStatus(messages, t.msgId, "failed")
                       /\ cacheFile' = cacheAfterUpdate(cacheFile, messages, t.msgId,
                                                        "failed", writeOk)
                       /\ UNCHANGED <<calls, sendCount>>
               /\ op' = [name |-> "ackTimeout", msgId |-> t.msgId,
                         attempt |-> pending.attempt, found |-> TRUE]
       ELSE /\ writeOk
            /\ op' = [name |-> "ackTimeout", msgId |-> t.msgId,
                      attempt |-> t.attempt, found |-> FALSE]
            /\ UNCHANGED <<pendingMessages, calls, sendCount, messages, cacheFile>>
    /\ nWriteFail' = failsAfter(TRUE, writeOk)
    /\ UNCHANGED <<uiVars, devVars, connVars, nextAck, nextSend, confirmed, now, nOps, syncVars>>

\* what Map.get() returns for a key that is not set (undefined), shaped as an entry
NoEntry == [msgId |-> 0, attempt |-> 0, publicKey |-> NoKey, text |-> "", timeout |-> NoHandle]

\* state.pendingMessages.get(code): the entry, or undefined
\* (a plausible slip: an unknown code taken for the ack of the oldest pending send)
pendingGetOrOldest(map, code) ==
  IF code \in DOMAIN map THEN map[code]
  ELSE IF DOMAIN map # {} THEN map[CHOOSE k \in DOMAIN map : \A j \in DOMAIN map : k <= j]
  ELSE NoEntry
pendingGet(map, code) == IF code \in DOMAIN map THEN map[code] ELSE NoEntry

\* the ack codes a SendConfirmed push can carry: every code handed out, and one that
\* was never issued
AckCodes == 1..nextAck

\* onSendConfirmed(data): a SendConfirmed push of a connection the handlers are
\* registered on.  The push for a send follows the radio round trip: it comes no
\* earlier than a clock tick after the send returned.
OnSendConfirmed ==
  \E ackCode \in AckCodes, writeOk \in WriteOutcomes :
    /\ \E c \in DOMAIN conns : hears(c)
    /\ IF pendingGet(pendingMessages, ackCode) # NoEntry
       THEN LET pending == pendingGet(pendingMessages, ackCode)
            IN /\ \A t \in ackTimers : t.id = pending.timeout => Elapsed(t.armedAt)
               /\ ackTimers' = {t \in ackTimers : t.id # pending.timeout}
               /\ pendingMessages' = MapDelete(pendingMessages, ackCode)
               /\ messages' = updateMessageStatus(messages, pending.msgId, "delivered")
               /\ cacheFile' = cacheAfterUpdate(cacheFile, messages, pending.msgId,
                                                "delivered", writeOk)
               /\ confirmed' = confirmed \cup {pending.msgId}
               /\ op' = [name |-> "onSendConfirmed", found |-> TRUE, ackCode |-> ackCode,
                         msgId |-> pending.msgId, attempt |-> pending.attempt]
       ELSE /\ writeOk
            /\ op' = [name |-> "onSendConfirmed", found |-> FALSE, ackCode |-> ackCode]
            /\ UNCHANGED <<ackTimers, pendingMessages, messages, cacheFile, confirmed>>
    /\ nWriteFail' = failsAfter(TRUE, writeOk)
    /\ UNCHANGED <<uiVars, devVars, connVars, calls, nextAck, nextSend, sendCount,
                   now, nOps, syncVars>>

(***************************************************************************)
(* Inbound Sync Loop                                                       *)
(***************************************************************************)
\* the first 6 bytes of a key, as subarray(0, 6) cuts them
keyPrefix(publicKey) == <<publicKey[1], publicKey[2]>>
\* BufferUtils.bytesToHex of a 6-byte prefix: 12 hex digits
bytesToHex(prefix) == prefix[1] \o prefix[2]
\* bytesToHex(prefix).substring(0, 8)
shortHex(prefix) == prefix[1]

NoPrefix == <<>>
PrefixAlice == keyPrefix(KeyAlice)
\* the key prefix of a sender that is in no contact list
PrefixGhost == <<"c0ffee00", "1234">>

\* the records syncNextMessage() yields: a contactMessage, a channelMessage, or a
\* record that is neither
InboundRecords ==
  { [kind |-> "contact", pubKeyPrefix |-> PrefixGhost, text |-> "hi"],
    [kind |-> "contact", pubKeyPrefix |-> PrefixAlice, text |-> "hi"],
    [kind |-> "channel", channelIdx |-> 0, text |-> "hi", senderName |-> Null,
     pubKeyPrefix |-> NoPrefix],
    [kind |-> "channel", channelIdx |-> 1, text |-> "hi", senderName |-> Null,
     pubKeyPrefix |-> PrefixGhost],
    [kind |-> "other"] }

hasPrefix(prefix) ==
  \E i \in 1..Len(contacts) :
    bytesToHex(keyPrefix(contacts[i].publicKey)) = bytesToHex(prefix)
\* state.contacts.find(c => bytesToHex(c.publicKey.subarray(0, 6)) === bytesToHex(prefix))
findByPrefix(prefix) ==
  contacts[CHOOSE i \in 1..Len(contacts) :
             /\ bytesToHex(keyPrefix(contacts[i].publicKey)) = bytesToHex(prefix)
             /\ \A j \in 1..(i-1) :
                  bytesToHex(keyPrefix(contacts[j].publicKey)) # bytesToHex(prefix)]

\* senderName of handleContactMessage: contact?.name || hex prefix
contactSender(rec) ==
  IF hasPrefix(rec.pubKeyPrefix) /\ findByPrefix(rec.pubKeyPrefix).name # ""
  THEN findByPrefix(rec.pubKeyPrefix).name
  ELSE bytesToHex(rec.pubKeyPrefix)

\* senderName of handleChannelMessage: a name field of the record, else the contact
\* with the record's key prefix, else the first 8 hex digits, else null
channelSender(rec) ==
  IF rec.senderName \notin {Null, ""} THEN rec.senderName
  ELSE IF rec.pubKeyPrefix # NoPrefix
       THEN IF hasPrefix(rec.pubKeyPrefix) THEN findByPrefix(rec.pubKeyPrefix).name
            ELSE shortHex(rec.pubKeyPrefix)
       ELSE Null

\* the message the handler of rec passes to addMessage
inboundMsg(rec) ==
  IF rec.kind = "contact"
  THEN Msg(now, "direct", NoIdx, contactSender(rec), rec.text, contactSender(rec),
           FALSE, Undefined)
  ELSE Msg(now, "channel", rec.channelIdx, Undefined, rec.text, channelSender(rec),
           FALSE, Undefined)

\* the conversation of rec is the selected one
inboundSelected(rec) ==
  IF rec.kind = "contact"
  THEN selectedChat.type = "direct" /\ selectedChat.name = contactSender(rec)
  ELSE selectedChat.type = "channel" /\ selectedChat.idx = rec.channelIdx

\* the second argument of incrementUnread for rec
inboundChat(rec) ==
  IF rec.kind = "contact" THEN contactSender(rec) ELSE ToString(rec.channelIdx)
inboundType(rec) == IF rec.kind = "contact" THEN "direct" ELSE "channel"

\* state.messages after `await handleContactMessage(...)` / `await
\* handleChannelMessage(...)` for rec: the handlers hold no await, so the whole handler
\* has run when processMessages goes on
\* (a plausible slip: the handler deferred with setImmediate instead of awaited)
handleDeferred(msgs, rec) == msgs
handleInbound(msgs, rec) == addMessage(msgs, inboundMsg(rec))

\* state.unreadCounts after the handler of rec
unreadAfter(rec) ==
  IF inboundSelected(rec) THEN unreadCounts
  ELSE incrementUnread(unreadCounts, inboundType(rec), inboundChat(rec))

\* if (!state.connected || isProcessing) return;
\* (a plausible slip: the single-flight flag not tested)
syncBlockedNoFlag == ~connected
syncBlocked == ~connected \/ isProcessing

\* a call of processMessages() gets as far as awaiting a pull
passStarts == ~syncBlocked /\ connection # NoConn

\* processMessages() up to its first await, called by `origin`; act is the onConnected
\* call awaiting it (0: none).  With state.connection null the pull throws inside the
\* try and the finally resets the flag in the same step.
processMessages(origin, act) ==
  IF passStarts
  THEN /\ isProcessing' = TRUE
       /\ passes' = passes \cup {[id |-> FreshId(passes), conn |-> connection,
                                  origin |-> origin, act |-> act]}
  ELSE UNCHANGED <<isProcessing, passes>>

\* the poll interval of onConnected fires
PollTick ==
  \E t \in pollTimers :
    /\ Elapsed(t.armedAt)
    /\ IF connected THEN processMessages("poll", 0) ELSE UNCHANGED <<isProcessing, passes>>
    /\ op' = [name |-> "trigger", origin |-> "poll", started |-> connected /\ passStarts]
    /\ UNCHANGED <<storeVars, uiVars, devVars, connVars, sendVars, pollTimers, onConn,
                   nInbound, now, nOps>>

\* the MsgWaiting push of a connection the handlers are registered on
OnMsgWaiting ==
  /\ \E c \in DOMAIN conns : hears(c)
  /\ processMessages("push", 0)
  /\ op' = [name |-> "trigger", origin |-> "push", started |-> passStarts]
  /\ UNCHANGED <<storeVars, uiVars, devVars, connVars, sendVars, pollTimers, onConn,
                 nInbound, now, nOps>>

\* finally { isProcessing = false }
\* (a plausible slip: the flag reset at the break only, the finally left out)
afterFinallySkipped(flag) == flag
afterFinally(flag) == FALSE

\* the end of the pass p (break, or catch), its finally, and, when an onConnected call
\* awaits the pass, the rest of that call: it arms the poll interval
endPass(p) ==
  /\ isProcessing' = afterFinally(isProcessing)
  /\ passes' = passes \ {p}
  /\ IF p.act # 0
     THEN /\ pollTimers' = pollTimers \cup {[id |-> FreshId(pollTimers), armedAt |-> now]}
          /\ onConn' = {a \in onConn : a.id # p.act}
     ELSE UNCHANGED <<pollTimers, onConn>>

\* syncNextMessage() returns a record: its handler runs and the next pull is issued on
\* the connection state.connection holds now
PullReturnsMessage ==
  \E p \in passes, rec \in InboundRecords, writeOk \in WriteOutcomes :
    /\ isOpen(p.conn)
    /\ nInbound < MaxInbound
    /\ now <= MaxClock
    /\ nInbound' = nInbound + 1
    /\ IF rec.kind = "other"
       THEN /\ UNCHANGED <<storeVars, uiVars>>
            /\ op' = [name |-> "inbound", kind |-> rec.kind, pass |-> p.id]
       ELSE /\ messages' = handleInbound(messages, rec)
            /\ cacheFile' = cacheAfterAdd(cacheFile, messages, inboundMsg(rec), writeOk)
            /\ nWriteFail' = failsAfter(~isDuplicate(messages, inboundMsg(rec)), writeOk)
            /\ unreadCounts' = unreadAfter(rec)
            /\ UNCHANGED <<selectedChat, inputValue>>
            /\ op' = [name |-> "inbound", kind |-> rec.kind, id |-> now, pass |-> p.id,
                      msg |-> inboundMsg(rec),
                      key |-> getChatKey(inboundType(rec), inboundChat(rec)),
                      selected |-> inboundSelected(rec),
                      accepted |-> ~isDuplicate(messages, inboundMsg(rec))]
    /\ IF connection = NoConn
       THEN endPass(p)
       ELSE /\ passes' = (passes \ {p}) \cup {[p EXCEPT !.conn = connection]}
            /\ UNCHANGED <<isProcessing, pollTimers, onConn>>
    /\ UNCHANGED <<devVars, connVars, sendVars, now, nOps>>

\* syncNextMessage() returns nothing: the mailbox is empty and the pass ends
PullReturnsEmpty ==
  \E p \in passes :
    /\ isOpen(p.conn)
    /\ endPass(p)
    /\ op' = [name |-> "passEnded", origin |-> p.origin, threw |-> FALSE]
    /\ UNCHANGED <<storeVars, uiVars, devVars, connVars, sendVars, nInbound, now, nOps>>

\* syncNextMessage() throws: the catch and the finally of processMessages
PullThrows ==
  \E p \in passes :
    /\ endPass(p)
    /\ op' = [name |-> "passEnded", origin |-> p.origin, threw |-> TRUE]
    /\ UNCHANGED <<storeVars, uiVars, devVars, connVars, sendVars, nInbound, now, nOps>>

(***************************************************************************)
(* onConnected: the snapshot fetch, the initial sync, the poll interval     *)
(***************************************************************************)
\* what getContacts() returns, mapped to {name, publicKey, type}
ContactLists == { SubSeq(DeviceContacts, 1, n) : n \in 1..Len(DeviceContacts) }
\* what getChannels() returns: records {channelIdx, name}
RawChannelLists ==
  { <<>>,
    << [channelIdx |-> 0, name |-> ""], [channelIdx |-> 1, name |-> " "] >>,
    << [channelIdx |-> 0, name |-> "Public"] >>,
    << [channelIdx |-> 0, name |-> " "], [channelIdx |-> 1, name |-> "ops"] >> }

\* ch.name && ch.name.trim() !== ''
isNamed(ch) == ch.name \notin {"", " "}
PublicOnly == << [idx |-> 0, name |-> "Public"] >>

\* if (state.channels.length === 0) state.channels = [{ idx: 0, name: 'Public' }]
\* (a plausible slip: the check for an empty list left out)
orPublicDropped(chs) == chs
orPublic(chs) == IF Len(chs) = 0 THEN PublicOnly ELSE chs

\* state.channels after the channel step: the named channels, or the fallback
\* (a plausible slip: the channels fetched are merged into the list held)
namedChannelsMerged(raw) ==
  LET keep == SelectSeq(raw, isNamed)
      mapped == [i \in 1..Len(keep) |-> [idx |-> keep[i].channelIdx, name |-> keep[i].name]]
      merged == channels \o SelectSeq(mapped, LAMBDA ch :
                                ~\E i \in 1..Len(channels) : channels[i].idx = ch.idx)
  IN orPublic(merged)
namedChannels(raw) ==
  LET keep == SelectSeq(raw, isNamed)
      mapped == [i \in 1..Len(keep) |-> [idx |-> keep[i].channelIdx, name |-> keep[i].name]]
  IN orPublic(mapped)

\* state.selectedChat after "update selected chat if current selection is invalid"
validSelection(chat, chs) ==
  IF chat.type = "channel" /\ ~\E i \in 1..Len(chs) : chs[i].idx = chat.idx
  THEN Chat("channel", chs[1].idx, chs[1].name)
  ELSE chat

\* the onConnected call a goes on to its next await, issued on state.connection; with
\* state.connection null the call throws into the catch of onConnected
advance(a, pc) ==
  onConn' = IF connection = NoConn THEN onConn \ {a}
            ELSE (onConn \ {a}) \cup {[a EXCEPT !.pc = pc, !.conn = connection]}

\* what `await state.connection.getChannels()` gave a call: the array returned, or
\* the exception thrown
Returned(raw) == [threw |-> FALSE, list |-> raw]
Threw == [threw |-> TRUE, list |-> <<>>]

\* the 'connected' event of connection object c; onConnected() runs when the handlers
\* are registered on c
ConnectedEvent ==
  \E c \in DOMAIN conns :
    /\ isOpen(c)
    /\ ~conns[c].announced
    /\ conns' = [conns EXCEPT ![c].announced = TRUE]
    /\ IF conns[c].listeners
       THEN /\ connected' = TRUE
            /\ onConn' = IF connection = NoConn THEN onConn
                         ELSE onConn \cup {[id |-> FreshId(onConn), pc |-> "selfInfo",
                                            conn |-> connection]}
       ELSE UNCHANGED <<connected, onConn>>
    /\ op' = [name |-> "connectedEvent", conn |-> c, heard |-> conns[c].listeners]
    /\ UNCHANGED <<connection, sup, delayLog, storeVars, uiVars, devVars, sendVars,
                   isProcessing, passes, pollTimers, nInbound, now, nOps>>

\* await getSelfInfo() returns
SelfInfoReturns ==
  \E a \in onConn :
    /\ a.pc = "selfInfo"
    /\ isOpen(a.conn)
    /\ selfInfo' = DeviceName
    /\ advance(a, "syncTime")
    /\ op' = [name |-> "onConnectedStep", pc |-> a.pc]
    /\ UNCHANGED <<contacts, channels, storeVars, uiVars, connVars, sendVars,
                   isProcessing, passes, pollTimers, nInbound, now, nOps>>

\* await syncDeviceTime() returns
SyncTimeReturns ==
  \E a \in onConn :
    /\ a.pc = "syncTime"
    /\ isOpen(a.conn)
    /\ advance(a, "contacts")
    /\ op' = [name |-> "onConnectedStep", pc |-> a.pc]
    /\ UNCHANGED <<devVars, storeVars, uiVars, connVars, sendVars,
                   isProcessing, passes, pollTimers, nInbound, now, nOps>>

\* await getContacts() returns
ContactsReturn ==
  \E a \in onConn, cs \in ContactLists :
    /\ a.pc = "contacts"
    /\ isOpen(a.conn)
    /\ contacts' = cs
    /\ advance(a, "channels")
    /\ op' = [name |-> "onConnectedStep", pc |-> a.pc, contacts |-> cs]
    /\ UNCHANGED <<selfInfo, channels, storeVars, uiVars, connVars, sendVars,
                   isProcessing, passes, pollTimers, nInbound, now, nOps>>

\* getSelfInfo / syncDeviceTime / getContacts throws: the outer catch of onConnected;
\* no poll interval is armed
FetchThrows ==
  \E a \in onConn :
    /\ a.pc \in {"selfInfo", "syncTime", "contacts"}
    /\ onConn' = onConn \ {a}
    /\ op' = [name |-> "initError", pc |-> a.pc]
    /\ UNCHANGED <<devVars, storeVars, uiVars, connVars, sendVars,
                   isProcessing, passes, pollTimers, nInbound, now, nOps>>

\* onConnected from the channel step on, the channel list being chs: the selection is
\* repaired, processMessages() is called and awaited; when it returns at once the poll
\* interval is armed in the same step
finishConnected(a, chs) ==
  /\ channels' = chs
  /\ IF selectedChat.type = "channel" /\ Len(chs) = 0
     THEN \* state.channels[0].idx of an empty list throws into the outer catch
          /\ onConn' = onConn \ {a}
          /\ UNCHANGED <<selectedChat, isProcessing, passes, pollTimers>>
     ELSE /\ selectedChat' = validSelection(selectedChat, chs)
          /\ processMessages("init", a.id)
          /\ IF passStarts
             THEN /\ onConn' = (onConn \ {a}) \cup
                                 {[a EXCEPT !.pc = "sync", !.conn = connection]}
                  /\ UNCHANGED pollTimers
             ELSE /\ onConn' = onConn \ {a}
                  /\ pollTimers' = pollTimers \cup
                                     {[id |-> FreshId(pollTimers), armedAt |-> now]}
  /\ UNCHANGED <<selfInfo, contacts, unreadCounts, inputValue, storeVars, connVars, sendVars,
                 nInbound, now, nOps>>

\* await getChannels() returns
ChannelsReturn ==
  \E a \in onConn, raw \in RawChannelLists :
    /\ a.pc = "channels"
    /\ isOpen(a.conn)
    /\ finishConnected(a, namedChannels(raw))
    /\ op' = [name |-> "onConnectedStep", pc |-> a.pc, started |-> passStarts,
              channels |-> Returned(raw)]

\* await getChannels() throws: the inner catch
ChannelsThrows ==
  \E a \in onConn :
    /\ a.pc = "channels"
    /\ finishConnected(a, PublicOnly)
    /\ op' = [name |-> "channelsFailed", started |-> passStarts, channels |-> Threw]

(***************************************************************************)
(* Initial states                                                          *)
(***************************************************************************)
\* module load with no cache file: state = {...}, retryAttempt = 0, no timers
StoreInit == messages = <<>> /\ cacheFile = NoFile
UiInit ==
  /\ selectedChat = Chat("channel", 0, "Public")
  /\ unreadCounts = EmptyMap
  /\ inputValue = <<>>
SendInit ==
  /\ pendingMessages = EmptyMap
  /\ ackTimers = {}
  /\ calls = {}
  /\ nextAck = 1
  /\ sendCount = [id \in 1..MaxClock |-> 0]
  /\ confirmed = {}
SyncInit == isProcessing = FALSE /\ passes = {} /\ onConn = {} /\ nInbound = 0
RunInit == now = 1 /\ op = [name |-> "start"] /\ nOps = 0

\* before the first connect(): nothing fetched, no connection object
DisconnectedInit ==
  /\ selfInfo = Null
  /\ contacts = <<>>
  /\ channels = <<>>
  /\ connected = FALSE
  /\ connection = NoConn
  /\ conns = <<>>
  /\ sup = SupInit
  /\ delayLog = <<>>
  /\ pollTimers = {}

\* after the first connect() resolved and onConnected ran to its end, the device
\* having returned the contacts cs and the channels chs
ConnectedInit(cs, chs) ==
  /\ selfInfo = DeviceName
  /\ contacts = cs
  /\ channels = chs
  /\ connected = TRUE
  /\ connection = 1
  /\ conns = <<[state |-> "open", listeners |-> TRUE, announced |-> TRUE,
               closeCalled |-> FALSE]>>
  /\ sup = SupInit
  /\ delayLog = <<>>
  /\ pollTimers = {[id |-> 1, armedAt |-> 0]}

(***************************************************************************)
(* SpecStore: the store API called in any order, from an empty store.      *)
(***************************************************************************)
InitStore ==
  /\ StoreInit /\ UiInit /\ SendInit /\ SyncInit /\ RunInit /\ DisconnectedInit
  /\ nextSend = 1
  /\ nWriteFail = 0

ApiAddMessage ==
  /\ nOps < MaxStoreOps
  /\ \E msg \in MsgSpace, writeOk \in WriteOutcomes :
       /\ messages' = addMessage(messages, msg)
       /\ cacheFile' = cacheAfterAdd(cacheFile, messages, msg, writeOk)
       /\ nWriteFail' = failsAfter(~isDuplicate(messages, msg), writeOk)
       /\ op' = [name |-> "addMessage", msg |-> msg,
                 accepted |-> ~isDuplicate(messages, msg),
                 threw |-> ~isDuplicate(messages, msg) /\ saveThrows(writeOk)]
  /\ nOps' = nOps + 1
  /\ UNCHANGED <<uiVars, devVars, connVars, sendVars, syncVars, now>>

ApiUpdateMessageStatus ==
  /\ nOps < MaxStoreOps
  /\ \E id \in Ids, st \in Statuses, writeOk \in WriteOutcomes :
       /\ messages' = updateMessageStatus(messages, id, st)
       /\ cacheFile' = cacheAfterUpdate(cacheFile, messages, id, st, writeOk)
       /\ nWriteFail' = failsAfter(hasId(messages, id), writeOk)
       /\ op' = [name |-> "updateMessageStatus", id |-> id, status |-> st,
                 threw |-> hasId(messages, id) /\ saveThrows(writeOk)]
  /\ nOps' = nOps + 1
  /\ UNCHANGED <<uiVars, devVars, connVars, sendVars, syncVars, now>>

NextStore == ApiAddMessage \/ ApiUpdateMessageStatus

SpecStore == InitStore /\ [][NextStore]_vars

(***************************************************************************)
(* SpecLoad: program start with any of the cache files.                     *)
(***************************************************************************)
\* the module is about to build `state`
InitLoad ==
  /\ cacheFile \in CacheFiles
  /\ messages = <<>>
  /\ UiInit /\ SendInit /\ SyncInit /\ RunInit /\ DisconnectedInit
  /\ nextSend = 1
  /\ nWriteFail = 0

\* messages: loadMessageCache() in the initialiser of `state`
LoadMessageCache ==
  /\ op.name = "start"
  /\ LET r == loadMessageCache(cacheFile)
     IN /\ messages' = r.value
        /\ op' = [name |-> "loadMessageCache", threw |-> r.threw]
  /\ UNCHANGED <<cacheFile, nWriteFail, uiVars, devVars, connVars, sendVars, syncVars,
                 now, nOps>>

NextLoad == LoadMessageCache

SpecLoad == InitLoad /\ [][NextLoad]_vars

(***************************************************************************)
(* SpecView: the message view of an established session whose log was read  *)
(* from a cache file.                                                       *)
(***************************************************************************)
InitView ==
  /\ cacheFile \in CacheFiles
  /\ cacheFile.json = "log"
  /\ messages = loadMessageCache(cacheFile).value
  /\ UiInit /\ SendInit /\ SyncInit /\ RunInit
  /\ ConnectedInit(DeviceContacts, DeviceChannels)
  /\ nextSend = 1
  /\ nWriteFail = MaxWriteFail

\* renderMessages() up to the filter: the messages it goes on to draw
RenderMessages ==
  /\ op' = [name |-> "renderMessages", view |-> filtered(messages, selectedChat)]
  /\ UNCHANGED <<storeVars, uiVars, devVars, connVars, sendVars, syncVars, now, nOps>>

NextView == SelectChat \/ RenderMessages

SpecView == InitView /\ [][NextView]_vars

(***************************************************************************)
(* SpecSend: the delivery tracker on an established connection, with the   *)
(* cache file writable.                                                    *)
(***************************************************************************)
InitSend ==
  /\ StoreInit /\ UiInit /\ SendInit /\ SyncInit /\ RunInit
  /\ nextSend = 1
  /\ ConnectedInit(SubSeq(DeviceContacts, 1, 1), SubSeq(DeviceChannels, 1, 1))
  /\ nWriteFail = MaxWriteFail

NextSend ==
  \/ \E text \in Texts : SendMessage(text)
  \/ ChannelSendResolves
  \/ ChannelSendThrows
  \/ DirectSendResolves
  \/ DirectSendThrows
  \/ AckTimeout
  \/ OnSendConfirmed
  \/ SelectChat
  \/ Tick
  \/ OnDisconnected(connection)

SpecSend == InitSend /\ [][NextSend]_vars

(***************************************************************************)
(* SpecConn: the supervisor from program start, the mailbox being empty (no *)
(* MsgWaiting push, every pull returns nothing) and the clock past the      *)
(* times at which the model creates messages.                              *)
(***************************************************************************)
\* module load, then connect() up to its await
InitConn ==
  /\ StoreInit /\ UiInit /\ SendInit /\ SyncInit
  /\ nextSend = 1
  /\ now = Later /\ op = [name |-> "start"] /\ nOps = 0
  /\ selfInfo = Null
  /\ contacts = <<>>
  /\ channels = <<>>
  /\ connected = FALSE
  /\ connection = 1
  /\ conns = <<NewConn>>
  /\ sup = SupInit
  /\ delayLog = <<>>
  /\ pollTimers = {}
  /\ nWriteFail = MaxWriteFail

NextConn ==
  \/ ConnectResolves
  \/ ConnectRejects
  \/ RetryTimerFires
  \/ ConnectedEvent
  \/ SelfInfoReturns
  \/ SyncTimeReturns
  \/ ContactsReturn
  \/ FetchThrows
  \/ ChannelsReturn
  \/ ChannelsThrows
  \/ PullReturnsEmpty
  \/ PullThrows
  \/ PollTick
  \/ \E c \in DOMAIN conns : OnDisconnected(c)

SpecConn == InitConn /\ [][NextConn]_vars

\* The supervisor alone: the fetches and sync passes of onConnected() stay pending
\* (they never write the supervisor's variables).  The event loop runs the callback
\* of every armed timer whose delay has passed.
NextRetry ==
  \/ ConnectResolves
  \/ ConnectRejects
  \/ RetryTimerFires
  \/ ConnectedEvent
  \/ \E c \in DOMAIN conns : OnDisconnected(c)

SpecConnLive == InitConn /\ [][NextRetry]_vars /\ WF_vars(RetryTimerFires)

(***************************************************************************)
(* SpecScan: the supervisor from program start with the device scanner: the *)
(* user may connect to a scanned device at any moment.  The fetches of      *)
(* onConnected() stay pending: they read state.connection and write the     *)
(* device snapshot, never the supervisor's variables.                      *)
(***************************************************************************)
NextScan ==
  \/ ConnectResolves
  \/ ConnectRejects
  \/ RetryTimerFires
  \/ ConnectToScannedDevice
  \/ ConnectToDeviceResolves
  \/ ConnectToDeviceRejects
  \/ ConnectedEvent
  \/ \E c \in DOMAIN conns : OnDisconnected(c)

SpecScan == InitConn /\ [][NextScan]_vars

(***************************************************************************)
(* SpecSync: the sync loop on a connection that has just been established.  *)
(***************************************************************************)
\* the first connect() has resolved and registered the handlers
InitSync ==
  /\ StoreInit /\ UiInit /\ SendInit /\ SyncInit /\ RunInit
  /\ nextSend = 1
  /\ selfInfo = Null
  /\ contacts = <<>>
  /\ channels = <<>>
  /\ connected = FALSE
  /\ connection = 1
  /\ conns = <<[state |-> "open", listeners |-> TRUE, announced |-> FALSE,
               closeCalled |-> FALSE]>>
  /\ sup = SupInit
  /\ delayLog = <<>>
  /\ pollTimers = {}
  /\ nWriteFail = MaxWriteFail

NextSync ==
  \/ ConnectedEvent
  \/ SelfInfoReturns
  \/ SyncTimeReturns
  \/ ContactsReturn
  \/ FetchThrows
  \/ ChannelsReturn
  \/ ChannelsThrows
  \/ PullReturnsMessage
  \/ PullReturnsEmpty
  \/ PullThrows
  \/ PollTick
  \/ OnMsgWaiting
  \/ SelectChat
  \/ OnDisconnected(connection)
  \/ Tick

SpecSync == InitSync /\ [][NextSync]_vars

(***************************************************************************)
(* SpecResync: onConnected on a connection established after an earlier     *)
(* session: state still holds the snapshot of that session, and the poll    *)
(* interval that session armed (it is never cleared) is still running.      *)
(***************************************************************************)
\* what the earlier session left: a device name, a contact and a channel that the
\* device of this session does not return
PreviousName == "morty"
PreviousContacts ==
  << [name |-> "carol", publicKey |-> <<"ca201234", "5678", "03">>, type |-> AdvTypeChat] >>
    \o DeviceContacts
PreviousChannels == << [idx |-> 0, name |-> "Public"], [idx |-> 2, name |-> "old"] >>

InitResync ==
  /\ StoreInit /\ UiInit /\ SendInit /\ SyncInit /\ RunInit
  /\ nextSend = 1
  /\ selfInfo = PreviousName
  /\ contacts = PreviousContacts
  /\ channels = PreviousChannels
  /\ connected = FALSE
  /\ connection = 2
  /\ conns = <<[state |-> "closed", listeners |-> TRUE, announced |-> TRUE,
               closeCalled |-> FALSE],
              [state |-> "open", listeners |-> TRUE, announced |-> FALSE,
               closeCalled |-> FALSE]>>
  /\ sup = SupInit
  /\ delayLog = <<>>
  /\ pollTimers = {[id |-> 1, armedAt |-> 0]}
  /\ nWriteFail = MaxWriteFail

\* the mailbox is empty: every pull returns nothing, or throws
NextResync ==
  \/ ConnectedEvent
  \/ SelfInfoReturns
  \/ SyncTimeReturns
  \/ ContactsReturn
  \/ FetchThrows
  \/ ChannelsReturn
  \/ ChannelsThrows
  \/ PullReturnsEmpty
  \/ PullThrows
  \/ PollTick
  \/ OnMsgWaiting
  \/ SelectChat
  \/ OnDisconnected(connection)
  \/ Tick

SpecResync == InitResync /\ [][NextResync]_vars

(***************************************************************************)
(* SpecInput: the input box on an established connection.                   *)
(***************************************************************************)
\* the session has made all but one of the sends the model allows
InitInput ==
  /\ StoreInit /\ UiInit /\ SendInit /\ SyncInit /\ RunInit
  /\ ConnectedInit(SubSeq(DeviceContacts, 1, 1), SubSeq(DeviceChannels, 1, 1))
  /\ nextSend = MaxSends
  /\ nWriteFail = MaxWriteFail

NextInput ==
  \/ TypeText
  \/ PressEnter
  \/ PressSend
  \/ SelectChat
  \/ OnDisconnected(connection)

SpecInput == InitInput /\ [][NextInput]_vars

(***************************************************************************)
(* SpecChat: an established session in which the user sends and the device  *)
(* delivers inbound messages: the send path and the receive path on one     *)
(* store.                                                                   *)
(***************************************************************************)
\* the session has made all but one of the sends and has pulled all but one of the
\* records the model allows
InitChat ==
  /\ StoreInit /\ UiInit /\ SendInit /\ RunInit
  /\ isProcessing = FALSE /\ passes = {} /\ onConn = {}
  /\ nInbound = MaxInbound - 1
  /\ ConnectedInit(SubSeq(DeviceContacts, 1, 1), SubSeq(DeviceChannels, 1, 1))
  /\ nextSend = MaxSends
  /\ nWriteFail = MaxWriteFail

NextChat ==
  \/ \E text \in Texts : SendMessage(text)
  \/ ChannelSendResolves
  \/ ChannelSendThrows
  \/ DirectSendResolves
  \/ DirectSendThrows
  \/ AckTimeout
  \/ OnSendConfirmed
  \/ PollTick
  \/ OnMsgWaiting
  \/ PullReturnsMessage
  \/ PullReturnsEmpty
  \/ PullThrows
  \/ SelectChat
  \/ Tick
  \/ OnDisconnected(connection)

SpecChat == InitChat /\ [][NextChat]_vars

\* the inbound half of a session: onConnected has run (the contact alice, the channels
\* Public and ops, the poll interval armed), the mailbox holds MaxInbound records;
\* nothing is sent
InitInbox ==
  /\ StoreInit /\ UiInit /\ SendInit /\ SyncInit /\ RunInit
  /\ ConnectedInit(SubSeq(DeviceContacts, 1, 1), DeviceChannels)
  /\ nextSend = 1
  /\ nWriteFail = MaxWriteFail

NextInbox ==
  \/ PollTick
  \/ OnMsgWaiting
  \/ PullReturnsMessage
  \/ PullReturnsEmpty
  \/ PullThrows
  \/ SelectChat
  \/ OnDisconnected(connection)
  \/ Tick

SpecInbox == InitInbox /\ [][NextInbox]_vars

\* the pull a pass awaits settles: syncNextMessage() returns a record, returns nothing,
\* or throws
PullSettles == PullReturnsMessage \/ PullReturnsEmpty \/ PullThrows

\* the receive path when no pull stays pending for ever
SpecInboxLive == SpecInbox /\ WF_vars(PullSettles)

(***************************************************************************)
(* Claims                                                                  *)
(***************************************************************************)
\* the content key of the claims: (type, channelIdx for a channel message /
\* contactName for a direct message, sender, text)
SameContentKey(m1, m2) ==
  /\ m1.type = m2.type
  /\ m1.sender = m2.sender
  /\ m1.text = m2.text
  /\ (m1.type = "channel" => m1.channelIdx = m2.channelIdx)
  /\ (m1.type = "direct" => m1.contactName = m2.contactName)

StoredWithKey(msg) == { i \in 1..Len(messages) : SameContentKey(messages[i], msg) }
StoredWithId(id) == { i \in 1..Len(messages) : messages[i].id = id }

\* C1: from an empty store, after any sequence of addMessage and updateMessageStatus
\* calls no two stored messages have the same id and no two have the same content key;
\* a message offered to addMessage is stored exactly once when it was accepted, and
\* when it was rejected a message with its id or its content key is already stored.
C1_StoreIsUnique ==
  /\ \A i, j \in 1..Len(messages) :
       i # j => /\ messages[i].id # messages[j].id
                /\ ~SameContentKey(messages[i], messages[j])
  /\ (op.name = "addMessage" /\ op.accepted) => Cardinality(StoredWithKey(op.msg)) = 1
  /\ (op.name = "addMessage" /\ ~op.accepted) =>
        /\ Cardinality(StoredWithKey(op.msg)) <= 1
        /\ StoredWithKey(op.msg) \cup StoredWithId(op.msg.id) # {}

\* C1's case: a second message with the content key of a stored one, under another id,
\* was offered and exactly one message with that key is stored
C1_Witness ==
  /\ op.name = "addMessage"
  /\ ~op.accepted
  /\ StoredWithId(op.msg.id) = {}
  /\ Cardinality(StoredWithKey(op.msg)) = 1

\* C2: for every message id sendTextMessage is invoked at most MAX_RETRIES + 1 = 3
\* times, and when the attempt numbered 2 times out or throws the message with that id
\* is marked failed.
C2_AtMostThreeAttempts ==
  /\ \A id \in DOMAIN sendCount : sendCount[id] <= MAX_RETRIES + 1
  /\ ( /\ op.name \in {"ackTimeout", "directSendThrew"}
       /\ op.attempt = MAX_RETRIES
       /\ (op.name = "ackTimeout" => op.found) )
     => \A i \in StoredWithId(op.msgId) : messages[i].status = "failed"

\* C3: an ack for the pending attempt of a message removes the pending entry, clears
\* its timeout and marks the message delivered in that step; afterwards sendTextMessage
\* is never invoked again for that message and its status never becomes failed.
C3_AckIsFinal ==
  /\ [][ (op'.name = "onSendConfirmed" /\ op'.found /\ op' # op) =>
           /\ Cardinality(DOMAIN pendingMessages') = Cardinality(DOMAIN pendingMessages) - 1
           /\ Cardinality(ackTimers') = Cardinality(ackTimers) - 1
           /\ \A i \in StoredWithId(op'.msgId) : messages'[i].status = "delivered" ]_vars
  /\ [][ \A id \in confirmed : sendCount'[id] = sendCount[id] ]_vars
  /\ [](\A i \in 1..Len(messages) :
           messages[i].id \in confirmed => messages[i].status # "failed")

\* C4: the i-th reconnect delay scheduled since the retry counter was last reset (at
\* program start, by a connect() that resolved, or by a 'disconnected' event, whose own
\* delay opens its run) is min(2000 * 2^i, 30000) ms for i = 0, 1, 2, ...; within the
\* run the delays never decrease and never exceed 30000; the timer retryTimer holds is
\* armed with the last of them.
C4_BackoffSequence ==
  /\ \A i \in 1..Len(delayLog) :
       /\ delayLog[i] = (IF 2000 * 2^(i-1) < 30000 THEN 2000 * 2^(i-1) ELSE 30000)
       /\ delayLog[i] <= 30000
       /\ (i > 1 => delayLog[i-1] <= delayLog[i])
  /\ \A t \in sup.timers :
       (t.id = sup.retryTimer /\ Len(delayLog) > 0) => t.delay = delayLog[Len(delayLog)]

\* C4's case: six connects failed in a row, the last two delays at the cap
C4_Witness ==
  /\ op.name = "connectFailed"
  /\ Len(delayLog) >= 6
  /\ delayLog[5] = 30000
  /\ delayLog[6] = 30000

\* C5: a connect() that resolves leaves retryAttempt at 0; onDisconnected resets
\* retryAttempt before scheduling, so it arms a 2000 ms timer and leaves the counter at
\* 1; a failed connect() increments the counter; nothing else changes the counter, and
\* every delay scheduled while the counter is 0 is 2000 ms.
C5_ResetOnConnectAndDisconnect ==
  /\ [][ (op'.name = "connectResolved" /\ ~op'.threw) => sup'.retryAttempt = 0 ]_vars
  /\ [][ op'.name = "onDisconnected" =>
           /\ sup'.retryAttempt = 1
           /\ \E t \in sup'.timers \ sup.timers :
                t.id = sup'.retryTimer /\ t.delay = 2000 ]_vars
  /\ [][ op'.name = "connectFailed" => sup'.retryAttempt = sup.retryAttempt + 1 ]_vars
  /\ [][ sup'.retryAttempt # sup.retryAttempt =>
           op'.name \in {"connectResolved", "connectFailed", "onDisconnected"} ]_vars
  /\ [][ sup.retryAttempt = 0 =>
           \A t \in sup'.timers \ sup.timers : t.delay = 2000 ]_vars

\* C5's case: a connect failed, the next one resolved with the counter above 0, the
\* session was cut, and the connect after the 2000 ms wait failed again
C5_Witness ==
  /\ op.name = "connectFailed"
  /\ delayLog = <<2000, 4000>>
  /\ \E c, d, e \in DOMAIN conns :
       /\ c < d /\ d < e
       /\ conns[c].state = "failed"
       /\ conns[d].state = "closed"
       /\ conns[e].state = "failed"

CountOf(counts, key) == IF key \in DOMAIN counts THEN counts[key] ELSE 0

\* C6: for every inbound message handled while its conversation is not selected, the
\* unread count of the conversation grows by 1 when the store accepted the message and
\* by 0 when the store rejected it as a duplicate (so two identical direct messages in
\* a row count once).  Stated for the messages whose id is the id of no stored message,
\* which the store rejects for their content alone.
C6_UnreadFollowsStore ==
  [][ ( /\ op'.name = "inbound" /\ op'.kind # "other" /\ ~op'.selected
        /\ StoredWithId(op'.id) = {} ) =>
        CountOf(unreadCounts', op'.key) - CountOf(unreadCounts, op'.key)
          = (IF op'.accepted THEN 1 ELSE 0) ]_vars

\* C7: a channel message never has status delivered, and no pending-send entry is ever
\* created for a channel message.
C7_ChannelNeverDelivered ==
  \A i \in 1..Len(messages) :
    messages[i].type = "channel" =>
      /\ messages[i].status # "delivered"
      /\ \A a \in DOMAIN pendingMessages : pendingMessages[a].msgId # messages[i].id

\* the UTF-8 length of a text, counted per width class
Utf8Bytes(str) ==
  LET n(lo, hi) == Cardinality({i \in 1..Len(str) : str[i] >= lo /\ str[i] < hi})
  IN n(0, 128) + 2 * n(128, 2048) + 3 * n(2048, 65536) + 4 * n(65536, 1114112)

SubmitStep ==
  \/ op'.name \in {"submitRejected", "submitEmpty"}
  \/ op'.name = "sendMessage" /\ op'.via \in {"enter", "button"}

\* C8: on both submit paths a text whose trimmed form is longer than 200 UTF-8 bytes
\* never reaches sendMessage and leaves the store, the persisted log, the pending sends
\* and the transport untouched; a non-blank text of at most 200 bytes is passed to
\* sendMessage as its trimmed form, unmodified, and is stored with exactly that text.
C8_OversizeRejected ==
  /\ [][ (SubmitStep /\ Utf8Bytes(trim(inputValue)) > 200) =>
           /\ op'.name = "submitRejected"
           /\ UNCHANGED <<messages, cacheFile, pendingMessages, calls, sendCount,
                          ackTimers, nextSend>> ]_vars
  /\ [][ (SubmitStep /\ trim(inputValue) # <<>> /\ Utf8Bytes(trim(inputValue)) <= 200) =>
           /\ op'.name = "sendMessage"
           /\ op'.text = trim(inputValue)
           /\ (op'.accepted /\ op'.stored) =>
                 messages'[Len(messages')].text = trim(inputValue) ]_vars

\* C8's case: a text of 201 bytes in 200 characters was rejected while a message of
\* exactly 200 bytes, sent earlier, is in the store
C8_Witness ==
  /\ op.name = "submitRejected"
  /\ op.bytes = 201
  /\ Len(inputValue) = 200
  /\ \E i \in 1..Len(messages) : Utf8Bytes(messages[i].text) = 200

\* C9: sendMessage called while state.connected is false changes neither the store, nor
\* the persisted log, nor the pending sends, nor the transport calls, nor any timer.
C9_DisconnectedSendIsNoOp ==
  [][ (op'.name = "sendMessage" /\ ~connected) =>
        /\ messages' = messages
        /\ cacheFile' = cacheFile
        /\ pendingMessages' = pendingMessages
        /\ calls' = calls
        /\ sendCount' = sendCount
        /\ ackTimers' = ackTimers
        /\ sup' = sup ]_vars

\* C10: at most one processMessages loop is between setting isProcessing and resetting
\* it, the flag is set exactly while a loop is in flight, and a trigger (poll tick, push,
\* initial sync) that arrives while a loop is in flight starts no loop, issues no pull
\* and leaves nothing behind that would start one later.
C10_SingleFlight ==
  /\ [](Cardinality(passes) <= 1)
  /\ [](isProcessing <=> passes # {})
  /\ [][ (op'.name = "trigger" /\ isProcessing) =>
           /\ ~op'.started
           /\ UNCHANGED <<passes, isProcessing, pollTimers, onConn, nInbound>> ]_vars
  /\ [][ (op'.name \in {"onConnectedStep", "channelsFailed"} /\ isProcessing) =>
           /\ ("started" \in DOMAIN op' => ~op'.started)
           /\ UNCHANGED <<passes, isProcessing>> ]_vars

\* C10's case: a poll tick arrived while the loop started by a push was awaiting its
\* pull, and was dropped
C10_Witness ==
  /\ op.name = "trigger"
  /\ op.origin = "poll"
  /\ ~op.started
  /\ connected
  /\ \E p \in passes : p.origin = "push"

\* C9's case: a send was rejected while disconnected, with a message already stored
C9_Witness ==
  /\ op.name = "sendMessage"
  /\ ~op.accepted
  /\ ~connected
  /\ Len(messages) > 0

\* C11: when connectToScannedDevice starts, every reconnect delay timer and every
\* countdown interval armed before it is cleared: after its first step no retry timer
\* and no countdown interval is armed, so none can fire a connect() against the
\* session the scanner establishes.
C11_ScannerCancelsRetry ==
  [][ op'.name = "connectToScannedDevice" =>
        sup'.timers = {} /\ sup'.intervals = {} ]_vars

\* a connection object that is connecting or open and on which close() was not called
Live(cs, c) == cs[c].state \in {"connecting", "pairing", "open"} /\ ~cs[c].closeCalled

\* C12: whenever a new connection object is installed in state.connection, the object
\* held before has been closed or has ended by then; at no time are two connection
\* objects connecting or open.
C12_OneConnection ==
  /\ [][ (connection' \notin {connection, NoConn} /\ connection # NoConn)
           => ~Live(conns', connection) ]_vars
  /\ [](Cardinality({c \in DOMAIN conns : Live(conns, c)}) <= 1)

\* C13: a disconnect and a manual reconnect cancel the ack timeouts of the connection
\* they end: after onDisconnected or the start of connectToScannedDevice no ack-timeout
\* timer is armed, so none fires later and re-sends a message.
C13_AckTimersCancelled ==
  [][ op'.name \in {"onDisconnected", "connectToScannedDevice"} => ackTimers' = {} ]_vars

\* C14: a connect() that fails leaves state.connected false and arms the retry timer
\* (scheduleRetry); with timers firing, a failed connect() is always followed by
\* another connect() attempt, up to the number of connection objects the model allows.
C14_FailedConnectRetries ==
  /\ [][ op'.name = "connectFailed" =>
           /\ ~connected'
           /\ sup'.retryAttempt = sup.retryAttempt + 1
           /\ sup'.retryTimer # NoHandle
           /\ \E t \in sup'.timers \ sup.timers : t.id = sup'.retryTimer ]_vars
  /\ (op.name = "connectFailed") ~> (op.name = "retryTimerFired" \/ Len(conns) = MaxConns)

\* a third connect() is under way after two failed ones
C14_Witness ==
  /\ op.name = "retryTimerFired"
  /\ Len(conns) >= 3
  /\ \A c \in 1..2 : conns[c].state = "failed"
  /\ conns[Len(conns)].state = "connecting"

\* the status changes the state machine of an outgoing message allows in one step
StatusSteps ==
  { <<st, st>> : st \in Statuses }
  \cup { <<"sending", "sent">>, <<"sent", "delivered">>, <<"sent", "failed">> }

\* C15: an outgoing message is stored with status sending; its status then only moves
\* sending -> sent, sent -> sent, sent -> delivered or sent -> failed: delivered and
\* failed are never left, and neither is reached directly from sending.
C15_StatusMachine ==
  [][ /\ \A i \in 1..Len(messages) :
           (i <= Len(messages') /\ messages[i].outgoing)
             => <<messages[i].status, messages'[i].status>> \in StatusSteps
      /\ \A i \in (Len(messages) + 1)..Len(messages') :
           messages'[i].outgoing => messages'[i].status = "sending" ]_vars

\* the k-th smallest element of a set of indices
Kth(I, k) == CHOOSE i \in I : Cardinality({j \in I : j < i}) = k - 1

\* the stored positions of the messages of the selected conversation
Wanted ==
  { i \in 1..Len(messages) :
      IF selectedChat.type = "channel"
      THEN messages[i].type = "channel" /\ messages[i].channelIdx = selectedChat.idx
      ELSE messages[i].type = "direct" /\ messages[i].contactName = selectedChat.name }

\* C16: the view renderMessages draws holds exactly the stored messages of the
\* selected conversation, each once, in the order of state.messages; with a channel
\* selected it holds no direct message, with a direct conversation no channel message.
C16_ViewIsConversation ==
  [][ op'.name = "renderMessages" =>
        /\ Len(op'.view) = Cardinality(Wanted)
        /\ \A k \in 1..Len(op'.view) :
             /\ op'.view[k] = messages[Kth(Wanted, k)]
             /\ op'.view[k].type = selectedChat.type ]_vars

\* a view that leaves out a direct message and a message of another channel, and keeps
\* two messages that are not neighbours in the log
C16_Witness ==
  /\ op.name = "renderMessages"
  /\ selectedChat.type = "channel"
  /\ Len(op.view) = 2
  /\ Len(messages) = 3
  /\ messages[2].type = "channel" /\ messages[2].channelIdx # selectedChat.idx

\* the content key of the load-time claim
ContentKey5(m) == <<m.type, m.sender, m.text, m.channelIdx, m.contactName>>

\* the positions of a message array that hold the first occurrence of a content key
FirstSeen(log) ==
  { i \in 1..Len(log) : \A j \in 1..(i - 1) : ContentKey5(log[j]) # ContentKey5(log[i]) }

\* C17: loadMessageCache returns the persisted messages array without the later
\* occurrences of each content key (type, sender, text, channelIdx, contactName): the
\* first occurrence of every key, in the persisted order, and nothing else.
C17_LoadKeepsFirstSeen ==
  [][ (op'.name = "loadMessageCache" /\ cacheFile.exists /\ cacheFile.json = "log") =>
        /\ Len(messages') <= Len(cacheFile.messages)
        /\ Len(messages') = Cardinality(FirstSeen(cacheFile.messages))
        /\ \A k \in 1..Len(messages') :
             messages'[k] = cacheFile.messages[Kth(FirstSeen(cacheFile.messages), k)] ]_vars

\* C18: for a cache file that is absent, unreadable, not JSON, or that parses to a
\* document without a messages array, loadMessageCache returns the empty log and
\* throws nothing.
C18_LoadToleratesBadFile ==
  [][ (op'.name = "loadMessageCache" /\ (~cacheFile.exists \/ cacheFile.json # "log")) =>
        ~op'.threw /\ messages' = <<>> ]_vars

\* a file that is not JSON has been loaded
C18_Witness ==
  /\ op.name = "loadMessageCache"
  /\ cacheFile.exists
  /\ cacheFile.json = "not json"
  /\ ~op.threw

\* C19: when addMessage accepts a message, or updateMessageStatus finds the message,
\* and the write of the cache file succeeds, the messages array of the file equals
\* state.messages when the call returns; as long as no write has failed the file is
\* never behind the log.
C19_PersistedBeforeReturn ==
  /\ [][ ( /\ nWriteFail' = nWriteFail
           /\ \/ op'.name = "addMessage" /\ Len(messages') = Len(messages) + 1
              \/ op'.name = "updateMessageStatus" /\ StoredWithId(op'.id) # {} )
         => cacheFile'.exists /\ cacheFile'.messages = messages' ]_vars
  /\ []((nWriteFail = 0 /\ messages # <<>>) => cacheFile.exists /\ cacheFile.messages = messages)

\* a status change was written after the write of the append had failed
C19_Witness ==
  /\ op.name = "updateMessageStatus"
  /\ nWriteFail = 1
  /\ cacheFile.exists
  /\ cacheFile.messages = messages
  /\ \E i \in StoredWithId(op.id) : messages[i].status = op.status

\* C20: addMessage with a message whose id or content key a stored message has leaves
\* state.messages as it was (length, elements, order, every field) and does not write
\* the cache file.
C20_DuplicateIsNoOp ==
  [][ ( /\ op'.name = "addMessage"
        /\ \E i \in 1..Len(messages) :
             messages[i].id = op'.msg.id \/ SameContentKey(messages[i], op'.msg) )
      => messages' = messages /\ cacheFile' = cacheFile /\ nWriteFail' = nWriteFail ]_vars

\* a duplicate was offered while the file was behind the log (the write of the
\* append had failed), and the file was left alone
C20_Witness ==
  /\ op.name = "addMessage"
  /\ ~op.accepted
  /\ Len(messages) = 1
  /\ ~cacheFile.exists
  /\ nWriteFail = 1

(***************************************************************************)
(* C21: an acknowledgment whose ack code has no pending-send entry is      *)
(* ignored: the onSendConfirmed step leaves state.messages (every status   *)
(* with it), the cache file, state.pendingMessages, the armed ack timers,  *)
(* the retry timers, the poll timers and the sends in flight unchanged.    *)
(* The handler has no statement that can throw on that path.               *)
(***************************************************************************)
C21_UnknownAckIgnored ==
  [][(op'.name = "onSendConfirmed" /\ op'.ackCode \notin DOMAIN pendingMessages)
       => /\ ~op'.found
          /\ UNCHANGED <<messages, cacheFile, pendingMessages, ackTimers, calls, sup,
                         pollTimers, confirmed>>]_vars

\* an ack for a code that was handed out and has timed out arrives while the retry
\* of its message is pending
C21_Witness ==
  /\ op.name = "onSendConfirmed" /\ ~op.found
  /\ op.ackCode < nextAck
  /\ \E k \in DOMAIN pendingMessages : pendingMessages[k].attempt >= 1

(***************************************************************************)
(* C22: a stored inbound message never changes in any field, and a stored  *)
(* outgoing message changes in its status only: every step leaves each     *)
(* stored message where it is, an inbound one as it was and an outgoing    *)
(* one as it was up to its status.                                         *)
(***************************************************************************)
C22_OnlyOutgoingStatusChanges ==
  [][\A i \in 1..Len(messages) :
       /\ i <= Len(messages')
       /\ IF messages[i].outgoing
          THEN [messages'[i] EXCEPT !.status = messages[i].status] = messages[i]
          ELSE messages'[i] = messages[i]]_vars

\* the conversation key of a message and of a chat
ConvKeyOfMsg(m) ==
  m.type \o ":" \o (IF m.type = "channel" THEN ToString(m.channelIdx) ELSE m.contactName)
ConvKeyOfChat(chat) ==
  chat.type \o ":" \o (IF chat.type = "channel" THEN ToString(chat.idx) ELSE chat.name)
\* the conversation keys a step can touch
StepKeys ==
  DOMAIN unreadCounts \cup DOMAIN unreadCounts'
    \cup {ConvKeyOfChat(selectedChat), ConvKeyOfChat(selectedChat')}
    \cup {ConvKeyOfChat(c) : c \in SidebarChats}

(***************************************************************************)
(* C23: unread counts are kept per conversation.  An inbound message of a  *)
(* conversation that is not the selected one raises the count of its       *)
(* conversation by exactly 1 and changes no other count; an inbound        *)
(* message of the selected conversation changes no count; selectChat       *)
(* leaves the count of the newly selected conversation 0 and changes no    *)
(* other count.                                                            *)
(***************************************************************************)
C23_UnreadPerConversation ==
  [][ /\ (op'.name = "inbound" /\ op'.kind # "other") =>
          LET key == ConvKeyOfMsg(op'.msg)
          IN \A k \in StepKeys \cup {key} :
               CountOf(unreadCounts', k) =
                 CountOf(unreadCounts, k)
                   + (IF k = key /\ key # ConvKeyOfChat(selectedChat) THEN 1 ELSE 0)
      /\ op'.name = "selectChat" =>
          \A k \in StepKeys :
            CountOf(unreadCounts', k) =
              (IF k = ConvKeyOfChat(selectedChat') THEN 0 ELSE CountOf(unreadCounts, k))
    ]_vars

\* a second inbound message of a conversation that is not selected has just been
\* counted
C23_Witness ==
  /\ op.name = "inbound" /\ op.kind # "other"
  /\ ConvKeyOfMsg(op.msg) # ConvKeyOfChat(selectedChat)
  /\ CountOf(unreadCounts, ConvKeyOfMsg(op.msg)) = 2

\* the channels of an array getChannels() returned that carry a name, as {idx, name}
Named(raw) == SelectSeq(raw, LAMBDA ch : ch.name \notin {"", " "})
AsChannels(raw) == [i \in 1..Len(raw) |-> [idx |-> raw[i].channelIdx, name |-> raw[i].name]]
\* the onConnected call a runs to its end in this step without an error: it is gone
\* and has armed its poll interval
Completes(a) ==
  /\ a \in onConn
  /\ \A b \in onConn' : b.id # a.id
  /\ Cardinality(pollTimers') > Cardinality(pollTimers)
\* the step is the return of the await at pc of an onConnected call
FetchStep(pc) == op'.name = "onConnectedStep" /\ op'.pc = pc
\* the step is the channel step of an onConnected call
ChannelStep == op'.name = "channelsFailed" \/ FetchStep("channels")
\* a contact or a channel that only the snapshot of the earlier session holds
OnlyPrevious(list, fresh) ==
  \E i \in 1..Len(list) : \A cs \in fresh : \A j \in 1..Len(cs) : list[i] # cs[j]

C25_PublicFallback ==
  [][ /\ ChannelStep =>
          /\ op'.channels.threw \/ Named(op'.channels.list) = <<>>
                => channels' = << [idx |-> 0, name |-> "Public"] >>
          /\ channels' # <<>>
      /\ channels # <<>> => channels' # <<>> ]_vars

\* the channel step has run on a list of unnamed channels only
C25_Witness ==
  /\ op.name = "onConnectedStep" /\ op.pc = "channels"
  /\ Len(op.channels.list) = 2 /\ Named(op.channels.list) = <<>>
  /\ channels = << [idx |-> 0, name |-> "Public"] >>

\* the message m, whatever its status
Unstamped(m) == [m EXCEPT !.status = Undefined]

(***************************************************************************)
(* C26: no message is deleted during a session.  Every step of the send    *)
(* path and of the receive path leaves the messages the log had as a       *)
(* prefix of the log, in their order (a status may have changed), adds at  *)
(* most one message, at the end, and never shortens the log.               *)
(***************************************************************************)
C26_LogOnlyGrows ==
  [][ /\ Len(messages) <= Len(messages') /\ Len(messages') <= Len(messages) + 1
      /\ \A i \in 1..Len(messages) : Unstamped(messages'[i]) = Unstamped(messages[i]) ]_vars

\* an inbound message has been appended behind an outgoing one that was delivered
C26_Witness ==
  /\ Len(messages) = 2
  /\ messages[1].outgoing /\ messages[1].status = "delivered"
  /\ ~messages[2].outgoing
  /\ op.name = "inbound"

\* the first stored message with the id
FirstWithId(msgs, id) ==
  CHOOSE k \in 1..Len(msgs) : msgs[k].id = id /\ \A j \in 1..(k-1) : msgs[j].id # id

(***************************************************************************)
(* C27: a cache write that fails blocks nothing in memory.  When the write *)
(* of an addMessage or updateMessageStatus call fails, the call returns    *)
(* without an exception, the accepted message is the new last element of   *)
(* state.messages (resp. the status of the message is the new status) and  *)
(* nothing else of the log changed, exactly as when the write succeeds;    *)
(* the file keeps its old content.                                         *)
(***************************************************************************)
C27_WriteFailureDoesNotBlock ==
  [][ nWriteFail' > nWriteFail =>
        /\ ~op'.threw
        /\ cacheFile' = cacheFile
        /\ op'.name = "addMessage" =>
              /\ op'.accepted
              /\ messages' = messages \o <<op'.msg>>
        /\ op'.name = "updateMessageStatus" =>
              /\ hasId(messages, op'.id)
              /\ Len(messages') = Len(messages)
              /\ \A i \in 1..Len(messages) :
                    messages'[i] =
                      IF i = FirstWithId(messages, op'.id)
                      THEN [messages[i] EXCEPT !.status = op'.status]
                      ELSE messages[i] ]_vars

\* the write of the second accepted message has failed: the log has it, the file not
C27_Witness ==
  /\ op.name = "addMessage" /\ op.accepted
  /\ nWriteFail = 1
  /\ Len(messages) = 2 /\ messages[2] = op.msg
  /\ Len(cacheFile.messages) = 1

\* C28: sendMessage stores its message before attempt 0, so every transport send
\* (channel or direct, first attempt or retry) that is in flight, and every pending
\* send, is for a message id that is present in the store.
C28_SendsAreForStoredMessages ==
  /\ \A c \in calls : hasId(messages, c.msgId)
  /\ \A a \in DOMAIN pendingMessages : hasId(messages, pendingMessages[a].msgId)

\* C29: the retry chain of a message is sequential and a pending send exists only
\* between a send and its ack or timeout: each message id has at most one pending-send
\* entry and at most one armed ack timer, no send of a message is in flight while an
\* entry of the message exists (attempt k+1 is issued after the entry of attempt k was
\* removed), and a message that is delivered or failed has neither an entry nor an
\* armed ack timer.
C29_SequentialChain ==
  /\ \A a, b \in DOMAIN pendingMessages :
       pendingMessages[a].msgId = pendingMessages[b].msgId => a = b
  /\ \A t, u \in ackTimers : t.msgId = u.msgId => t = u
  /\ \A c \in calls, a \in DOMAIN pendingMessages :
       c.kind = "direct" => c.msgId # pendingMessages[a].msgId
  /\ \A i \in 1..Len(messages) :
       messages[i].status \in {"delivered", "failed"} =>
         /\ \A a \in DOMAIN pendingMessages : pendingMessages[a].msgId # messages[i].id
         /\ \A t \in ackTimers : t.msgId # messages[i].id

(***************************************************************************)
(* C30: within a sync pass the records are handled strictly in the order   *)
(* the mailbox yields them.  The step that takes the i-th record off the   *)
(* mailbox is taken by the one pass in flight, and when it ends (the pass  *)
(* awaiting the next pull, or ended) the handler of the record has run:    *)
(* an accepted message is the new last element of state.messages behind    *)
(* everything stored before, a rejected or unknown record leaves the log   *)
(* as it was, and the unread count of the record's conversation is         *)
(* updated.  So the messages of a pass stand in state.messages in mailbox  *)
(* order.                                                                  *)
(***************************************************************************)
C30_MailboxOrder ==
  [][ op'.name = "inbound" =>
        /\ nInbound' = nInbound + 1
        /\ passes = {p \in passes : p.id = op'.pass} /\ Cardinality(passes) = 1
        /\ \A q \in passes' : q.id = op'.pass
        /\ IF op'.kind # "other" /\ op'.accepted
           THEN messages' = messages \o <<op'.msg>>
           ELSE messages' = messages
        /\ op'.kind # "other" =>
              CountOf(unreadCounts', ConvKeyOfMsg(op'.msg)) =
                CountOf(unreadCounts, ConvKeyOfMsg(op'.msg))
                  + (IF ConvKeyOfMsg(op'.msg) = ConvKeyOfChat(selectedChat) THEN 0 ELSE 1) ]_vars

\* the second record of the mailbox has been handled: its message stands behind the
\* message of the first, and the pass awaits its third pull
C30_Witness ==
  /\ op.name = "inbound" /\ op.kind # "other"
  /\ nInbound = 2
  /\ Len(messages) = 2 /\ messages[2] = op.msg
  /\ Cardinality(passes) = 1

\* addMessage called on an empty store with the messages of log[1..n], in order
RECURSIVE Replay(_, _)
Replay(log, n) == IF n = 0 THEN <<>> ELSE addMessage(Replay(log, n - 1), log[n])

\* C31: for every persisted message array, loadMessageCache returns the sequence that
\* calling addMessage on an empty store with the persisted messages in order gives: the
\* duplicate check of the load and that of the live session reject the same messages.
C31_LoadIsReplay ==
  [][ (op'.name = "loadMessageCache" /\ cacheFile.exists /\ cacheFile.json = "log") =>
        messages' = Replay(cacheFile.messages, Len(cacheFile.messages)) ]_vars

\* C32: an inbound message whose content key (type, conversation, sender, text) differs
\* from that of every stored message is stored, whatever its id: the handler of a
\* pulled record leaves it as the last element of state.messages.
C32_NewContentIsStored ==
  [][ ( /\ op'.name = "inbound" /\ op'.kind # "other"
        /\ \A i \in 1..Len(messages) : ~SameContentKey(messages[i], op'.msg) )
      => messages' = Append(messages, op'.msg) ]_vars

\* the step handles an event of a connection object that state.connection no longer
\* holds: its 'disconnected' event (also the one that follows its close()), or the
\* failure of its connect
StaleEvent ==
  /\ op'.name \in {"onDisconnected", "connectFailed", "connectToDeviceFailed"}
  /\ op'.conn # connection

\* C33: state.connected reflects only the connection object held in state.connection.
\* An event of a replaced connection object never sets state.connected to false, never
\* arms a reconnect timer, and never overwrites state.connection while the connection
\* held is up.
C33_StaleEventsIgnored ==
  [][ StaleEvent =>
        /\ connected => connected'
        /\ sup'.timers = sup.timers
        /\ isOpen(connection) => connection' = connection ]_vars

\* C34: at most one reconnect delay timer and at most one countdown interval are armed
\* at any time, and every armed one is the one retryTimer / retryCountdown refers to
\* (so cancelRetry can clear it).
C34_OneRetryTimer ==
  /\ Cardinality(sup.timers) <= 1
  /\ Cardinality(sup.intervals) <= 1
  /\ \A t \in sup.timers : t.id = sup.retryTimer
  /\ \A h \in sup.intervals : h = sup.retryCountdown

\* C35: at most one recurring poll timer is armed at any time, across any number of
\* connect / disconnect / reconnect cycles.
C35_OnePollTimer == Cardinality(pollTimers) <= 1

(***************************************************************************)
(* C36: the single-flight guard is always released.  Every step in which a *)
(* sync pass ends (the mailbox returned nothing, or the pull or a handler  *)
(* threw) leaves isProcessing false; a trigger that arrives while          *)
(* connected and no pass is in flight starts a pass; and when no pull      *)
(* stays pending for ever, every pass that has started ends.               *)
(***************************************************************************)
C36_GuardReleased ==
  /\ [][ /\ (\E p \in passes : p \notin passes' /\ \A q \in passes' : q.id # p.id)
             => ~isProcessing'
         /\ (op'.name = "trigger" /\ connected /\ connection # NoConn /\ ~isProcessing)
             => (op'.started /\ isProcessing' /\ passes' # {}) ]_vars
  /\ (isProcessing ~> ~isProcessing)

\* a pass has handled a record and has ended because the next pull threw: the guard
\* is released
C36_Witness ==
  /\ op.name = "passEnded" /\ op.threw
  /\ nInbound >= 1
  /\ ~isProcessing /\ passes = {}

\* every transport send call returns or throws, every armed ack timer fires once its
\* delay has passed, and time passes
SpecSendLive ==
  /\ SpecSend
  /\ WF_vars(DirectSendResolves \/ DirectSendThrows)
  /\ WF_vars(AckTimeout)
  /\ WF_vars(Tick)

\* the i-th stored message is a direct message sendMessage stored, in the status st
DirectIn(i, st) ==
  /\ i <= Len(messages)
  /\ messages[i].outgoing /\ messages[i].type = "direct"
  /\ messages[i].status \in st

(***************************************************************************)
(* C37: every direct send reaches a terminal status.  When transport send  *)
(* calls return or throw and armed timers fire, a direct message that      *)
(* sendMessage stored with status sending, or that is sent, eventually is  *)
(* delivered or failed.                                                    *)
(***************************************************************************)
C37_DirectSendTerminates ==
  \A i \in 1..MaxSends :
    DirectIn(i, {"sending", "sent"}) ~> DirectIn(i, {"delivered", "failed"})

\* C38: the selected conversation has unread count 0 in every reachable state:
\* state.unreadCounts has no positive entry for the conversation in state.selectedChat.
C38_SelectedHasNoUnread == CountOf(unreadCounts, ConvKeyOfChat(selectedChat)) = 0

(***************************************************************************)
(* A session that stores messages and a later run of the program that      *)
(* reads the log the session left behind.                                  *)
(***************************************************************************)
\* the messages the handlers hand to addMessage in the session: channel and direct
\* messages whose text and sender name are whatever the radio delivered, '|' included
LiveMsgs == LogMsgs

\* addMessage(msg) called by a handler of the session
AddLiveMessage ==
  /\ nOps < MaxStoreOps
  /\ \E msg \in LiveMsgs, writeOk \in WriteOutcomes :
       /\ messages' = addMessage(messages, msg)
       /\ cacheFile' = cacheAfterAdd(cacheFile, messages, msg, writeOk)
       /\ nWriteFail' = failsAfter(~isDuplicate(messages, msg), writeOk)
       /\ op' = [name |-> "addMessage", msg |-> msg,
                 accepted |-> ~isDuplicate(messages, msg),
                 threw |-> ~isDuplicate(messages, msg) /\ saveThrows(writeOk)]
  /\ nOps' = nOps + 1
  /\ UNCHANGED <<uiVars, devVars, connVars, sendVars, syncVars, now>>

\* the program is started again: `state` is initialised anew, with
\* messages: loadMessageCache() reading the file the session left
Restart ==
  /\ nOps < MaxStoreOps
  /\ LET r == loadMessageCache(cacheFile)
     IN /\ messages' = r.value
        /\ op' = [name |-> "restart", threw |-> r.threw]
  /\ nOps' = nOps + 1
  /\ UNCHANGED <<cacheFile, nWriteFail, uiVars, devVars, connVars, sendVars, syncVars,
                 now>>

NextReload == AddLiveMessage \/ ApiUpdateMessageStatus \/ Restart

SpecReload == InitStore /\ [][NextReload]_vars

\* the file holds the snapshot saveMessageCache wrote of the log as it is now
SnapshotWritten ==
  cacheFile.exists /\ cacheFile.json = "log" /\ cacheFile.messages = messages

\* C39: loadMessageCache applied to the snapshot that saveMessageCache wrote of a log
\* built by addMessage and updateMessageStatus returns that log: the same messages
\* in the same order with the same statuses, nothing the session accepted removed
C39_ReloadIsIdentity ==
  [][ (op'.name = "restart" /\ SnapshotWritten) => messages' = messages ]_vars

====
